---- MODULE Spec2Model ----
(***************************************************************************)
(* Alice's side of the XMR/BTC atomic swap (swap/src/alice/swap.rs):       *)
(* the AliceState variants, their persisted form state::Alice, the two     *)
(* conversions between them, and the recursive driver run_until with its   *)
(* awaited wallet / peer operations and its checkpoints in the store.      *)
(* The driver is split at its suspension points (every .await), so that a  *)
(* dropped driver (crash) and a resume from the store can happen between   *)
(* an awaited operation and the checkpoint that follows it.                *)
(***************************************************************************)
EXTENDS Integers, FiniteSets, Sequences, TLC

\* ------------------------------------------------------------------ bounds
\* number of distinct swap amounts a swap may be started with
MaxAmount == 2
\* number of times Bob's process is stopped and resumed from his store
MaxBobRestarts == 1
\* number of do_protocol_listener / do_protocol_dialer calls made on the two behaviours
MaxRequests == 2
\* number of times the connection between the two peers is established
MaxConnects == 1
\* number of inbound substreams a peer opens without a dialer request behind them
MaxStray == 1

\* ------------------------------------------------------------- data model
Tags == {"Started", "Negotiated", "BtcLocked", "XmrLocked", "EncSigLearned",
         "BtcRedeemed", "BtcCancelled", "BtcRefunded", "BtcPunishable",
         "XmrRefunded", "CancelTimelockExpired", "BtcPunished", "SafelyAborted"}

\* SwapAmounts { btc, xmr }; the all-zero record stands for "field not present"
NoAmounts == [btc |-> 0, xmr |-> 0]
SwapAmounts == {[btc |-> n, xmr |-> 100 * n] : n \in 1..MaxAmount}

\* State0 / State3: the amounts they carry and the key material (id)
NoKeys == [btc |-> 0, xmr |-> 0, id |-> 0]
State0Of(amounts) == [btc |-> amounts.btc, xmr |-> amounts.xmr, id |-> 1]

\* bitcoin::TxCancel::new(&tx_lock, cancel_timelock, a.public(), B)
TxCancelNew(state3) == [spends |-> "tx_lock", keys |-> state3.id]
\* bitcoin::TxRefund::new(&tx_cancel, &refund_address)
TxRefundNew(tx_cancel, refund_address) == [spends |-> "tx_cancel", keys |-> tx_cancel.keys]
NoTx == [spends |-> "none", keys |-> 0]

\* enum AliceState: one record shape, fields a variant lacks hold their "absent" value
AliceBlank == [tag |-> "none", channel |-> "None", amounts |-> NoAmounts,
               state0 |-> NoKeys, state3 |-> NoKeys, encrypted_signature |-> "none",
               spend_key |-> 0, tx_cancel |-> NoTx, tx_refund |-> NoTx]

Started(amounts, state0) ==
    [AliceBlank EXCEPT !.tag = "Started", !.amounts = amounts, !.state0 = state0]
Negotiated(channel, amounts, state3) ==
    [AliceBlank EXCEPT !.tag = "Negotiated", !.channel = channel, !.amounts = amounts, !.state3 = state3]
BtcLocked(channel, amounts, state3) ==
    [AliceBlank EXCEPT !.tag = "BtcLocked", !.channel = channel, !.amounts = amounts, !.state3 = state3]
XmrLocked(state3) == [AliceBlank EXCEPT !.tag = "XmrLocked", !.state3 = state3]
EncSigLearned(state3, sig) ==
    [AliceBlank EXCEPT !.tag = "EncSigLearned", !.state3 = state3, !.encrypted_signature = sig]
CancelTimelockExpired(state3) == [AliceBlank EXCEPT !.tag = "CancelTimelockExpired", !.state3 = state3]
BtcCancelled(state3, tx_cancel) ==
    [AliceBlank EXCEPT !.tag = "BtcCancelled", !.state3 = state3, !.tx_cancel = tx_cancel]
BtcPunishable(tx_refund, state3) ==
    [AliceBlank EXCEPT !.tag = "BtcPunishable", !.state3 = state3, !.tx_refund = tx_refund]
BtcRefunded(spend_key, state3) ==
    [AliceBlank EXCEPT !.tag = "BtcRefunded", !.state3 = state3, !.spend_key = spend_key]
EndState(tag) == [AliceBlank EXCEPT !.tag = tag]

\* the in-memory state of a driver that was dropped or returned an error
Dropped == AliceBlank

\* enum state::Alice, the persisted form; NoEntry: the store has no entry for swap_id
DbBlank == [tag |-> "NoEntry", amounts |-> NoAmounts, state0 |-> NoKeys, state3 |-> NoKeys,
            encrypted_signature |-> "none", spend_key |-> 0, end_state |-> "none"]
NoEntry == DbBlank

\* impl From<&AliceState> for state::Alice
ToDb(s) ==
    CASE s.tag = "Negotiated" -> [DbBlank EXCEPT !.tag = "Negotiated", !.state3 = s.state3]
      [] s.tag = "BtcLocked" -> [DbBlank EXCEPT !.tag = "BtcLocked", !.state3 = s.state3]
      [] s.tag = "XmrLocked" -> [DbBlank EXCEPT !.tag = "XmrLocked", !.state3 = s.state3]
      [] s.tag = "EncSigLearned" ->
            [DbBlank EXCEPT !.tag = "EncSigLearned", !.state3 = s.state3,
                            !.encrypted_signature = s.encrypted_signature]
      [] s.tag = "BtcRedeemed" -> [DbBlank EXCEPT !.tag = "Done", !.end_state = "BtcRedeemed"]
      [] s.tag = "BtcCancelled" -> [DbBlank EXCEPT !.tag = "BtcCancelled", !.state3 = s.state3]
      [] s.tag = "BtcRefunded" ->
            [DbBlank EXCEPT !.tag = "BtcRefunded", !.spend_key = s.spend_key, !.state3 = s.state3]
      [] s.tag = "BtcPunishable" -> [DbBlank EXCEPT !.tag = "BtcPunishable", !.state3 = s.state3]
      [] s.tag = "XmrRefunded" -> [DbBlank EXCEPT !.tag = "Done", !.end_state = "XmrRefunded"]
      [] s.tag = "CancelTimelockExpired" ->
            [DbBlank EXCEPT !.tag = "CancelTimelockExpired", !.state3 = s.state3]
      [] s.tag = "BtcPunished" -> [DbBlank EXCEPT !.tag = "Done", !.end_state = "BtcPunished"]
      [] s.tag = "SafelyAborted" -> [DbBlank EXCEPT !.tag = "Done", !.end_state = "SafelyAborted"]
      [] s.tag = "Started" ->
            [DbBlank EXCEPT !.tag = "Started", !.amounts = s.amounts, !.state0 = s.state0]

\* a conversion that loads a persisted XmrLocked as BtcLocked
FromDb_xmrAsBtcLocked(d) ==
    CASE d.tag = "Started" -> Started(d.amounts, d.state0)
      [] d.tag = "Negotiated" ->
            Negotiated("None", [btc |-> d.state3.btc, xmr |-> d.state3.xmr], d.state3)
      [] d.tag \in {"BtcLocked", "XmrLocked"} ->
            BtcLocked("None", [btc |-> d.state3.btc, xmr |-> d.state3.xmr], d.state3)
      [] d.tag = "EncSigLearned" -> EncSigLearned(d.state3, d.encrypted_signature)
      [] d.tag = "CancelTimelockExpired" -> CancelTimelockExpired(d.state3)
      [] d.tag = "BtcCancelled" -> BtcCancelled(d.state3, TxCancelNew(d.state3))
      [] d.tag = "BtcPunishable" ->
            BtcPunishable(TxRefundNew(TxCancelNew(d.state3), d.state3.id), d.state3)
      [] d.tag = "BtcRefunded" -> BtcRefunded(d.spend_key, d.state3)
      [] d.tag = "Done" -> EndState(d.end_state)

\* a conversion that loses the spend key of BtcRefunded
FromDb_dropKey(d) ==
    CASE d.tag = "Started" -> Started(d.amounts, d.state0)
      [] d.tag = "Negotiated" ->
            Negotiated("None", [btc |-> d.state3.btc, xmr |-> d.state3.xmr], d.state3)
      [] d.tag = "BtcLocked" ->
            BtcLocked("None", [btc |-> d.state3.btc, xmr |-> d.state3.xmr], d.state3)
      [] d.tag = "XmrLocked" -> XmrLocked(d.state3)
      [] d.tag = "EncSigLearned" -> EncSigLearned(d.state3, d.encrypted_signature)
      [] d.tag = "CancelTimelockExpired" -> CancelTimelockExpired(d.state3)
      [] d.tag = "BtcCancelled" -> BtcCancelled(d.state3, TxCancelNew(d.state3))
      [] d.tag = "BtcPunishable" ->
            BtcPunishable(TxRefundNew(TxCancelNew(d.state3), d.state3.id), d.state3)
      [] d.tag = "BtcRefunded" -> BtcRefunded(0, d.state3)
      [] d.tag = "Done" -> EndState(d.end_state)

\* impl From<state::Alice> for AliceState
FromDb(d) ==
    CASE d.tag = "Started" -> Started(d.amounts, d.state0)
      [] d.tag = "Negotiated" ->
            Negotiated("None", [btc |-> d.state3.btc, xmr |-> d.state3.xmr], d.state3)
      [] d.tag = "BtcLocked" ->
            BtcLocked("None", [btc |-> d.state3.btc, xmr |-> d.state3.xmr], d.state3)
      [] d.tag = "XmrLocked" -> XmrLocked(d.state3)
      [] d.tag = "EncSigLearned" -> EncSigLearned(d.state3, d.encrypted_signature)
      [] d.tag = "CancelTimelockExpired" -> CancelTimelockExpired(d.state3)
      [] d.tag = "BtcCancelled" -> BtcCancelled(d.state3, TxCancelNew(d.state3))
      [] d.tag = "BtcPunishable" ->
            BtcPunishable(TxRefundNew(TxCancelNew(d.state3), d.state3.id), d.state3)
      [] d.tag = "BtcRefunded" -> BtcRefunded(d.spend_key, d.state3)
      [] d.tag = "Done" -> EndState(d.end_state)

\* pub fn is_complete
is_complete(s) == s.tag \in {"XmrRefunded", "BtcRedeemed", "BtcPunished", "SafelyAborted"}
\* pub fn is_xmr_locked
is_xmr_locked(s) == s.tag = "XmrLocked"
\* pub fn is_encsig_learned
is_encsig_learned(s) == s.tag = "EncSigLearned"

\* the is_target_state argument of run_until: the three predicates of the
\* module, one that accepts nothing and one that accepts BtcPunishable
Predicates == {"is_complete", "is_xmr_locked", "is_encsig_learned", "never", "is_btc_punishable"}
is_target_state(p, s) ==
    CASE p = "is_complete" -> is_complete(s)
      [] p = "is_xmr_locked" -> is_xmr_locked(s)
      [] p = "is_encsig_learned" -> is_encsig_learned(s)
      [] p = "is_btc_punishable" -> s.tag = "BtcPunishable"
      [] p = "never" -> FALSE
\* ============================================ the peer substream layer
\* the two swarms of tests::it_works
Peers == {"alice", "bob"}
Other(n) == IF n = "alice" THEN "bob" ELSE "alice"

\* the values alice_do_protocol and bob_do_protocol are called with
Foo == 10
Baz == 42
Bar == 1337

\* what a protocol returns: AliceResult { bar }, BobResult { foo, baz }, or the error
NoValue == [foo |-> 0, bar |-> 0, baz |-> 0]
AliceResult(bar) == [NoValue EXCEPT !.bar = bar]
BobResult(foo, baz) == [NoValue EXCEPT !.foo = foo, !.baz = baz]

\* a negotiated substream: the bytes under way to the listener and to the dialer
NewWire == [toListener |-> <<>>, toDialer |-> <<>>, broken |-> FALSE]
Message0(foo) == [type |-> "Message0", val |-> foo]
Message1(bar) == [type |-> "Message1", val |-> bar]
Message2(baz) == [type |-> "Message2", val |-> baz]

\* enum InboundProtocolState / OutboundProtocolState: id names the request whose
\* closure is held, stage and got are the position of the protocol future,
\* stray marks a substream no dialer request of the peer stands behind
DirNone == [tag |-> "None", id |-> 0, stage |-> 0, got |-> 0, stray |-> FALSE]
PendingSubstream(id) == [DirNone EXCEPT !.tag = "PendingSubstream", !.id = id]
PendingProtocolFn(stray) == [DirNone EXCEPT !.tag = "PendingProtocolFn", !.stray = stray]
ReadyToPoll(id, stray) == [DirNone EXCEPT !.tag = "ReadyToPoll", !.id = id, !.stray = stray]
DirDone == [DirNone EXCEPT !.tag = "Done"]
Poisoned == [DirNone EXCEPT !.tag = "Poisoned"]

\* NMessageHandler::new; live: the connection the handler belongs to is open,
\* panicked: the function that panicked, "no" while none has
NewHandler == [live |-> TRUE, inbound_state |-> DirNone, outbound_state |-> DirNone,
               substream_request |-> FALSE, panicked |-> "no"]
NoHandler == [NewHandler EXCEPT !.live = FALSE]

\* mutant: a substream that arrives first is polled at once, without a closure
inject_fully_negotiated_inbound_eager(h, stray) ==
    CASE h.inbound_state.tag = "None" ->
            [h EXCEPT !.inbound_state = ReadyToPoll(0, stray)]
      [] h.inbound_state.tag = "PendingSubstream" ->
            [h EXCEPT !.inbound_state = ReadyToPoll(h.inbound_state.id, stray)]
      [] OTHER ->
            [h EXCEPT !.inbound_state = Poisoned,
                      !.panicked = "inject_fully_negotiated_inbound"]

\* NMessageHandler::inject_fully_negotiated_inbound
inject_fully_negotiated_inbound(h, stray) ==
    CASE h.inbound_state.tag = "None" ->
            [h EXCEPT !.inbound_state = PendingProtocolFn(stray)]
      [] h.inbound_state.tag = "PendingSubstream" ->
            [h EXCEPT !.inbound_state = ReadyToPoll(h.inbound_state.id, stray)]
      [] OTHER ->
            [h EXCEPT !.inbound_state = Poisoned,
                      !.panicked = "inject_fully_negotiated_inbound"]

\* NMessageHandler::inject_fully_negotiated_outbound
inject_fully_negotiated_outbound(h) ==
    CASE h.outbound_state.tag = "None" ->
            [h EXCEPT !.outbound_state = PendingProtocolFn(FALSE)]
      [] h.outbound_state.tag = "PendingSubstream" ->
            [h EXCEPT !.outbound_state = ReadyToPoll(h.outbound_state.id, FALSE)]
      [] OTHER ->
            [h EXCEPT !.outbound_state = Poisoned,
                      !.panicked = "inject_fully_negotiated_outbound"]

\* mutant: a closure that cannot be taken replaces what the direction holds
inject_event_overwrites(h, event) ==
    IF event.dir = "ExecuteInbound"
    THEN CASE h.inbound_state.tag = "PendingProtocolFn" ->
                [h EXCEPT !.inbound_state = ReadyToPoll(event.id, h.inbound_state.stray)]
           [] OTHER ->
                [h EXCEPT !.inbound_state = PendingSubstream(event.id)]
    ELSE CASE h.outbound_state.tag = "PendingProtocolFn" ->
                [h EXCEPT !.substream_request = TRUE,
                          !.outbound_state = ReadyToPoll(event.id, FALSE)]
           [] OTHER ->
                [h EXCEPT !.substream_request = TRUE,
                          !.outbound_state = PendingSubstream(event.id)]

\* NMessageHandler::inject_event
inject_event(h, event) ==
    IF event.dir = "ExecuteInbound"
    THEN CASE h.inbound_state.tag = "None" ->
                [h EXCEPT !.inbound_state = PendingSubstream(event.id)]
           [] h.inbound_state.tag = "PendingProtocolFn" ->
                [h EXCEPT !.inbound_state = ReadyToPoll(event.id, h.inbound_state.stray)]
           [] OTHER ->
                [h EXCEPT !.inbound_state = Poisoned, !.panicked = "inject_event"]
    ELSE CASE h.outbound_state.tag = "None" ->
                [h EXCEPT !.substream_request = TRUE,
                          !.outbound_state = PendingSubstream(event.id)]
           [] h.outbound_state.tag = "PendingProtocolFn" ->
                [h EXCEPT !.substream_request = TRUE,
                          !.outbound_state = ReadyToPoll(event.id, FALSE)]
           [] OTHER ->
                [h EXCEPT !.substream_request = TRUE,
                          !.outbound_state = Poisoned, !.panicked = "inject_event"]

\* NMessageHandler::inject_dial_upgrade_error
inject_dial_upgrade_error(h) == [h EXCEPT !.panicked = "inject_dial_upgrade_error"]

\* mutant: the dialer returns without sending Message2
PollDialer_withoutMessage2(st, w) ==
    LET w1 == IF st.stage = 0
              THEN [w EXCEPT !.toListener = Append(@, Message0(Foo))]
              ELSE w
    IN  IF w.broken
        THEN [poll |-> "Err", st |-> DirDone, wire |-> w, value |-> NoValue]
        ELSE IF w1.toDialer = <<>>
        THEN [poll |-> "Pending", st |-> [st EXCEPT !.stage = 1], wire |-> w1,
              value |-> NoValue]
        ELSE [poll |-> "Ok", st |-> DirDone,
              wire |-> [w1 EXCEPT !.toDialer = Tail(@)],
              value |-> AliceResult(Head(w1.toDialer).val)]

\* one poll of the future alice_do_protocol builds, on the substream w
PollDialer(st, w) ==
    LET w1 == IF st.stage = 0
              THEN [w EXCEPT !.toListener = Append(@, Message0(Foo))]
              ELSE w
    IN  IF w.broken
        THEN [poll |-> "Err", st |-> DirDone, wire |-> w, value |-> NoValue]
        ELSE IF w1.toDialer = <<>>
        THEN [poll |-> "Pending", st |-> [st EXCEPT !.stage = 1], wire |-> w1,
              value |-> NoValue]
        ELSE [poll |-> "Ok", st |-> DirDone,
              wire |-> [w1 EXCEPT !.toDialer = Tail(@),
                                  !.toListener = Append(@, Message2(Baz))],
              value |-> AliceResult(Head(w1.toDialer).val)]

\* one poll of the future bob_do_protocol builds, on the substream w
PollListener(st, w) ==
    LET first == st.stage = 0 /\ w.toListener # <<>>
        w1 == IF first
              THEN [w EXCEPT !.toListener = Tail(@), !.toDialer = Append(@, Message1(Bar))]
              ELSE w
        st1 == IF first
               THEN [st EXCEPT !.stage = 1, !.got = Head(w.toListener).val]
               ELSE st
    IN  IF w.broken
        THEN [poll |-> "Err", st |-> DirDone, wire |-> w, value |-> NoValue]
        ELSE IF st1.stage = 0 \/ w1.toListener = <<>>
        THEN [poll |-> "Pending", st |-> st1, wire |-> w1, value |-> NoValue]
        ELSE [poll |-> "Ok", st |-> DirDone,
              wire |-> [w1 EXCEPT !.toListener = Tail(@)],
              value |-> BobResult(st1.got, Head(w1.toListener).val)]

\* ProtocolOutEvent / BehaviourOutEvent, tagged with the request they answer
OutEvent(peer, kind, id, value) == [peer |-> peer, kind |-> kind, id |-> id, value |-> value]

\* ================================================================== state
VARIABLES
    state,        \* the AliceState the driver holds (Dropped when no driver holds one)
    pred,         \* the is_target_state argument of the running driver
    pc,           \* "new", "entry", "await", "ckpt", "done", "failed", "crashed"
    op,           \* the operation the driver is awaiting
    db,           \* the store's entry for swap_id
    negotiated,   \* the negotiation with Bob has completed
    chain,        \* what is published: tx_lock, xmr_lock, tx_redeem, tx_cancel, tx_punish
    refundTx,     \* Bob's tx_refund on chain: "none", or whether its signature decrypts
    encSig,       \* Bob's encrypted signature message: "none", "good" or "bad"
    timelock,     \* ExpiredTimelocks of tx_lock: "None", "Cancel", "Punish"
    walletLoaded, \* the Monero recovery wallet was created and loaded
    quiet,        \* no awaited operation completed and no event occurred since the last resume
    opResult,     \* how the awaited operation of the transition in progress completed
    bob,          \* Bob: his state, his store's entry, his spend key, whether his process runs
    link,                \* the connection between the two peers is open
    swarm,               \* per peer: how far its swarm has taken the connection
    protocol_in_events,  \* per peer: NMessageBehaviour::protocol_in_events
    protocol_out_events, \* per peer: NMessageBehaviour::protocol_out_events
    connected_peers,     \* per peer: the entry of the other peer in connected_peers
    handler,             \* per peer: the NMessageHandler of the connection
    upgrade,             \* per peer: substreams the swarm is still negotiating
    wire,                \* per peer: the substream that peer dialed
    notify,              \* per peer: NotifyHandler events under way to the handler
    custom,              \* per peer: Custom events under way to the behaviour
    emitted,             \* per peer: the BehaviourOutEvents generated so far
    requests,            \* the do_protocol_* calls made so far, in order
    lastPoll,            \* per peer: what the last poll of the handler polled
    counters             \* how often the connection was established, stray substreams opened

swapVars == <<state, pred, pc, op, db, negotiated, chain, refundTx, encSig, timelock,
              walletLoaded, quiet, opResult, bob>>
netVars == <<link, swarm, protocol_in_events, protocol_out_events, connected_peers, handler,
             upgrade, wire, notify, custom, emitted, requests, lastPoll, counters>>
vars == <<swapVars, netVars>>
env == <<negotiated, chain, refundTx, encSig, timelock, walletLoaded, bob>>

Running == {"entry", "await", "ckpt"}

\* BobState, as far as Alice's side of the swap can tell the variants apart
BobTags == {"Started", "Negotiated", "BtcLocked", "XmrLockProofReceived", "XmrLocked",
            "EncSigSent", "BtcRedeemed", "CancelTimelockExpired", "BtcCancelled",
            "BtcRefunded", "BtcPunished", "SafelyAborted"}
BobInit == [tag |-> "Started", stored |-> "Started", spend_key |-> 0, up |-> TRUE, restarts |-> 0]

\* which protocol futures the last NMessageHandler::poll polled, and with what result;
\* "skipped": the future was there and the poll returned before reaching it
NoPoll == [inbound |-> "none", outbound |-> "none"]

\* NMessageBehaviour::new on both peers, no connection yet
NetInit ==
    /\ link = FALSE
    /\ swarm = [n \in Peers |-> "none"]
    /\ notify = [n \in Peers |-> <<>>]
    /\ custom = [n \in Peers |-> <<>>]
    /\ protocol_in_events = [n \in Peers |-> <<>>]
    /\ protocol_out_events = [n \in Peers |-> <<>>]
    /\ connected_peers = [n \in Peers |-> [present |-> FALSE, addrs |-> 0]]
    /\ handler = [n \in Peers |-> NoHandler]
    /\ upgrade = [n \in Peers |-> [outbound |-> FALSE, inbound |-> FALSE]]
    /\ wire = [n \in Peers |-> NewWire]
    /\ emitted = [n \in Peers |-> <<>>]
    /\ requests = <<>>
    /\ lastPoll = [n \in Peers |-> NoPoll]
    /\ counters = [connects |-> 0, strays |-> 0]

Init ==
    /\ state = Dropped
    /\ pred = "is_complete"
    /\ pc = "new"
    /\ op = "none"
    /\ db = NoEntry
    /\ negotiated = FALSE
    /\ chain = {}
    /\ refundTx = "none"
    /\ encSig = "none"
    /\ timelock = "None"
    /\ walletLoaded = FALSE
    /\ quiet = FALSE
    /\ opResult = "none"
    /\ bob = BobInit
    /\ NetInit
\* ------------------------------------------------- helpers of the driver
\* negotiate(state0, amounts, ..) -> (channel, state3): state3 keeps state0's amounts and keys
negotiate(state0) == [btc |-> state0.btc, xmr |-> state0.xmr, id |-> state0.id]
\* extract_monero_private_key(published_refund_tx, tx_refund, s_a, a, S_b_bitcoin)
extract_monero_private_key(state3) == 100 + state3.id

\* awaited operations whose error leaves run_until through `?`
Propagating == {"negotiate", "wait_for_locked_bitcoin", "lock_xmr", "expired_timelocks",
                "select_enc_sig", "wait_for_cancel_timelock", "publish_redeem",
                "publish_cancel", "wait_for_bitcoin_refund", "create_and_load_wallet"}

\* the driver moves on to a new in-memory state whose checkpoint is still to be written
GoTo(s) == /\ state' = s
           /\ pc' = "ckpt"
           /\ op' = "none"

\* the driver starts awaiting an operation
Await(o) == /\ pc' = "await"
            /\ op' = o
            /\ opResult' = "none"
            /\ UNCHANGED <<state, pred, db, env, netVars, quiet>>

\* run_until leaves with Err: the in-memory state is gone
Fail == /\ pc' = "failed"
        /\ op' = "none"
        /\ state' = Dropped

\* an awaited operation completed with Ok ("ok") or with Err ("err")
Completed(r) == /\ quiet' = FALSE
                /\ opResult' = r

AtEntry(tag) == /\ pc = "entry"
                /\ ~is_target_state(pred, state)
                /\ state.tag = tag

Awaiting(o) == pc = "await" /\ op = o

\* ------------------------------------------------------ starting a driver
\* swap / run_until called on a fresh Started state: nothing is in the store yet
StartSwap(p, amounts) ==
    /\ pc = "new"
    /\ state' = Started(amounts, State0Of(amounts))
    /\ pred' = p
    /\ pc' = "entry"
    /\ quiet' = FALSE
    /\ opResult' = "none"
    /\ UNCHANGED <<op, db, env, netVars>>

\* resume: read the store's entry, convert it, enter the driver again
Resume(p) ==
    /\ pc \in {"done", "failed", "crashed"}
    /\ db # NoEntry
    /\ state' = FromDb(db)
    /\ pred' = p
    /\ pc' = "entry"
    /\ quiet' = TRUE
    /\ opResult' = "none"
    /\ UNCHANGED <<op, db, env, netVars>>

\* the driver is dropped at a suspension point
Crash ==
    /\ pc \in Running
    /\ pc' = "crashed"
    /\ state' = Dropped
    /\ op' = "none"
    /\ UNCHANGED <<pred, db, env, netVars, quiet, opResult>>

\* ------------------------------------------------------------- run_until
\* if is_target_state(&state) { Ok(state) }
ReturnTarget ==
    /\ pc = "entry"
    /\ is_target_state(pred, state)
    /\ pc' = "done"
    /\ UNCHANGED <<state, pred, op, db, env, netVars, quiet, opResult>>

\* a driver whose BtcPunished state falls into the BtcPunishable arm
TerminalArm_punishAgain ==
    /\ pc = "entry"
    /\ ~is_target_state(pred, state)
    /\ state.tag \in {"XmrRefunded", "BtcRedeemed", "BtcPunished", "SafelyAborted"}
    /\ IF state.tag = "BtcPunished"
       THEN Await("select_punish")
       ELSE /\ pc' = "done"
            /\ UNCHANGED <<state, pred, op, db, env, netVars, quiet, opResult>>

\* AliceState::XmrRefunded => Ok(..), BtcRedeemed, BtcPunished, SafelyAborted likewise
TerminalArm ==
    /\ pc = "entry"
    /\ ~is_target_state(pred, state)
    /\ state.tag \in {"XmrRefunded", "BtcRedeemed", "BtcPunished", "SafelyAborted"}
    /\ pc' = "done"
    /\ UNCHANGED <<state, pred, op, db, env, netVars, quiet, opResult>>

\* a failing checkpoint that has already replaced the entry
CheckpointErr_partialWrite ==
    /\ pc = "ckpt"
    /\ Fail
    /\ db' = ToDb(state)
    /\ UNCHANGED <<pred, env, netVars, quiet, opResult>>

\* db.insert_latest_state(swap_id, ..) fails: `?` returns the error
CheckpointErr ==
    /\ pc = "ckpt"
    /\ Fail
    /\ UNCHANGED <<pred, db, env, netVars, quiet, opResult>>

\* a driver that recurses without writing the checkpoint
CheckpointOk_noWrite ==
    /\ pc = "ckpt"
    /\ pc' = IF state.tag = "XmrRefunded" THEN "done" ELSE "entry"
    /\ pred' = IF state.tag = "BtcPunishable" THEN "is_complete" ELSE pred
    /\ opResult' = "none"
    /\ UNCHANGED <<state, op, db, env, netVars, quiet>>

\* db.insert_latest_state(swap_id, ..) succeeds, then the recursive call:
\* run_until with the same predicate, swap (is_complete) after BtcPunishable,
\* and a plain Ok(state) after XmrRefunded
CheckpointOk ==
    /\ pc = "ckpt"
    /\ db' = ToDb(state)
    /\ pc' = IF state.tag = "XmrRefunded" THEN "done" ELSE "entry"
    /\ pred' = IF state.tag = "BtcPunishable" THEN "is_complete" ELSE pred
    /\ opResult' = "none"
    /\ UNCHANGED <<state, op, env, netVars, quiet>>

\* an error path that records SafelyAborted before it returns the error
OpErr_abort ==
    /\ pc = "await"
    /\ op \in Propagating
    /\ pc' = "failed"
    /\ op' = "none"
    /\ state' = EndState("SafelyAborted")
    /\ db' = ToDb(EndState("SafelyAborted"))
    /\ Completed("err")
    /\ UNCHANGED <<pred, env, netVars>>

\* an awaited operation returns Err and `?` propagates it
OpErr ==
    /\ pc = "await"
    /\ op \in Propagating
    /\ Fail
    /\ Completed("err")
    /\ UNCHANGED <<pred, db, env, netVars>>

\* AliceState::Started
StartedBranch == AtEntry("Started") /\ Await("negotiate")

NegotiateOk ==
    /\ Awaiting("negotiate")
    /\ GoTo(Negotiated("Some", state.amounts, negotiate(state.state0)))
    /\ negotiated' = TRUE
    /\ Completed("ok")
    /\ UNCHANGED <<pred, db, chain, refundTx, encSig, timelock, walletLoaded, bob, netVars>>

\* a Negotiated arm that waits for tx_lock whether or not the channel is there
NegotiatedBranch_alwaysWait ==
    /\ AtEntry("Negotiated")
    /\ Await("wait_for_locked_bitcoin")

\* AliceState::Negotiated
NegotiatedBranch ==
    /\ AtEntry("Negotiated")
    /\ IF state.channel = "Some"
       THEN Await("wait_for_locked_bitcoin")
       ELSE /\ GoTo(EndState("SafelyAborted"))
            /\ UNCHANGED <<pred, db, env, netVars, quiet, opResult>>

WaitForLockedBitcoinOk ==
    /\ Awaiting("wait_for_locked_bitcoin")
    /\ "tx_lock" \in chain
    /\ GoTo(BtcLocked(state.channel, state.amounts, state.state3))
    /\ Completed("ok")
    /\ UNCHANGED <<pred, db, env, netVars>>

\* AliceState::BtcLocked
BtcLockedBranch ==
    /\ AtEntry("BtcLocked")
    /\ IF state.channel = "Some"
       THEN Await("lock_xmr")
       ELSE /\ GoTo(EndState("SafelyAborted"))
            /\ UNCHANGED <<pred, db, env, netVars, quiet, opResult>>

LockXmrOk ==
    /\ Awaiting("lock_xmr")
    /\ chain' = chain \cup {"xmr_lock"}
    /\ GoTo(XmrLocked(state.state3))
    /\ Completed("ok")
    /\ UNCHANGED <<pred, db, negotiated, refundTx, encSig, timelock, walletLoaded, bob, netVars>>

\* AliceState::XmrLocked
XmrLockedBranch == AtEntry("XmrLocked") /\ Await("expired_timelocks")

\* an XmrLocked arm that sets up the select whatever expired_timelocks answers
ExpiredTimelocksOk_alwaysSelect ==
    /\ Awaiting("expired_timelocks")
    /\ pc' = "await"
    /\ op' = "select_enc_sig"
    /\ state' = state
    /\ Completed("ok")
    /\ UNCHANGED <<pred, db, env, netVars>>

\* state3.expired_timelocks(..).await? answers None: the select is set up;
\* any other answer: CancelTimelockExpired
ExpiredTimelocksOk ==
    /\ Awaiting("expired_timelocks")
    /\ IF timelock = "None"
       THEN /\ pc' = "await"
            /\ op' = "select_enc_sig"
            /\ state' = state
       ELSE GoTo(CancelTimelockExpired(state.state3))
    /\ Completed("ok")
    /\ UNCHANGED <<pred, db, env, netVars>>

\* select(..): cancel_timelock_expires completes first; Either::Left(_) drops
\* its Result, so a completion with Err is taken like one with Ok
SelectCancelTimelock(ok) ==
    /\ Awaiting("select_enc_sig")
    /\ ok => timelock # "None"
    /\ GoTo(CancelTimelockExpired(state.state3))
    /\ Completed(IF ok THEN "ok" ELSE "err")
    /\ UNCHANGED <<pred, db, env, netVars>>

\* select(..): wait_for_enc_sig completes first with Ok
SelectEncSig ==
    /\ Awaiting("select_enc_sig")
    /\ encSig # "none"
    /\ GoTo(EncSigLearned(state.state3, encSig))
    /\ Completed("ok")
    /\ UNCHANGED <<pred, db, env, netVars>>

\* an EncSigLearned arm that goes on to publish whatever the build returned
EncSigLearnedBranch_alwaysPublish ==
    /\ AtEntry("EncSigLearned")
    /\ Await("publish_redeem")

\* an EncSigLearned arm that looks at the cancel timelock before it redeems
EncSigLearnedBranch_checksTimelock ==
    /\ AtEntry("EncSigLearned")
    /\ IF state.encrypted_signature = "good" /\ timelock = "None"
       THEN Await("publish_redeem")
       ELSE Await("wait_for_cancel_timelock")

\* AliceState::EncSigLearned: build_bitcoin_redeem_transaction decides the branch
EncSigLearnedBranch ==
    /\ AtEntry("EncSigLearned")
    /\ IF state.encrypted_signature = "good"
       THEN Await("publish_redeem")
       ELSE Await("wait_for_cancel_timelock")

\* a redeem step that reports success without the transaction reaching the chain
PublishRedeemOk_noBroadcast ==
    /\ Awaiting("publish_redeem")
    /\ "tx_cancel" \notin chain
    /\ GoTo(EndState("BtcRedeemed"))
    /\ Completed("ok")
    /\ UNCHANGED <<pred, db, env, netVars>>

PublishRedeemOk ==
    /\ Awaiting("publish_redeem")
    /\ "tx_cancel" \notin chain
    /\ chain' = chain \cup {"tx_redeem"}
    /\ GoTo(EndState("BtcRedeemed"))
    /\ Completed("ok")
    /\ UNCHANGED <<pred, db, negotiated, refundTx, encSig, timelock, walletLoaded, bob, netVars>>

\* an EncSigLearned arm that gives up instead of cancelling when the redeem build failed
WaitForCancelTimelockOk_abort ==
    /\ Awaiting("wait_for_cancel_timelock")
    /\ timelock # "None"
    /\ GoTo(EndState("SafelyAborted"))
    /\ Completed("ok")
    /\ UNCHANGED <<pred, db, env, netVars>>

\* an EncSigLearned arm that does not wait for the cancel timelock after a failed build
WaitForCancelTimelockOk_noWait ==
    /\ Awaiting("wait_for_cancel_timelock")
    /\ GoTo(CancelTimelockExpired(state.state3))
    /\ Completed("ok")
    /\ UNCHANGED <<pred, db, env, netVars>>

WaitForCancelTimelockOk ==
    /\ Awaiting("wait_for_cancel_timelock")
    /\ timelock # "None"
    /\ GoTo(CancelTimelockExpired(state.state3))
    /\ Completed("ok")
    /\ UNCHANGED <<pred, db, env, netVars>>

\* AliceState::CancelTimelockExpired
CancelTimelockExpiredBranch == AtEntry("CancelTimelockExpired") /\ Await("publish_cancel")

\* a CancelTimelockExpired arm that publishes tx_cancel and starts over at XmrLocked
PublishCancelOk_backToXmrLocked ==
    /\ Awaiting("publish_cancel")
    /\ timelock # "None"
    /\ "tx_redeem" \notin chain
    /\ chain' = chain \cup {"tx_cancel"}
    /\ GoTo(XmrLocked(state.state3))
    /\ Completed("ok")
    /\ UNCHANGED <<pred, db, negotiated, refundTx, encSig, timelock, walletLoaded, bob, netVars>>

PublishCancelOk ==
    /\ Awaiting("publish_cancel")
    /\ timelock # "None"
    /\ "tx_redeem" \notin chain
    /\ chain' = chain \cup {"tx_cancel"}
    /\ GoTo(BtcCancelled(state.state3, TxCancelNew(state.state3)))
    /\ Completed("ok")
    /\ UNCHANGED <<pred, db, negotiated, refundTx, encSig, timelock, walletLoaded, bob, netVars>>

\* AliceState::BtcCancelled
BtcCancelledBranch == AtEntry("BtcCancelled") /\ Await("transaction_block_height")

\* bitcoin_wallet.transaction_block_height(tx_cancel.txid()).await answers (no
\* Result, no `?`); wait_for_bitcoin_refund(..) is awaited next
TransactionBlockHeight ==
    /\ Awaiting("transaction_block_height")
    /\ pc' = "await"
    /\ op' = "wait_for_bitcoin_refund"
    /\ state' = state
    /\ Completed("ok")
    /\ UNCHANGED <<pred, db, env, netVars>>

\* a BtcCancelled arm that extracts the spend key although no refund was seen
WaitForRefundNone_extractsKey ==
    /\ Awaiting("wait_for_bitcoin_refund")
    /\ timelock = "Punish"
    /\ GoTo(BtcRefunded(extract_monero_private_key(state.state3), state.state3))
    /\ Completed("ok")
    /\ UNCHANGED <<pred, db, env, netVars>>

\* wait_for_bitcoin_refund answers (tx_refund, None): the punish timelock expired first
WaitForRefundNone ==
    /\ Awaiting("wait_for_bitcoin_refund")
    /\ timelock = "Punish"
    /\ GoTo(BtcPunishable(TxRefundNew(state.tx_cancel, state.state3.id), state.state3))
    /\ Completed("ok")
    /\ UNCHANGED <<pred, db, env, netVars>>

\* a BtcCancelled arm that takes a seen refund for an expired punish timelock
WaitForRefundSome_asPunishable ==
    /\ Awaiting("wait_for_bitcoin_refund")
    /\ refundTx # "none"
    /\ GoTo(BtcPunishable(TxRefundNew(state.tx_cancel, state.state3.id), state.state3))
    /\ Completed("ok")
    /\ UNCHANGED <<pred, db, env, netVars>>

\* wait_for_bitcoin_refund answers (tx_refund, Some(published_refund_tx));
\* extract_monero_private_key(..)? then gives the spend key or the error
WaitForRefundSome ==
    /\ Awaiting("wait_for_bitcoin_refund")
    /\ refundTx # "none"
    /\ IF refundTx = "good"
       THEN GoTo(BtcRefunded(extract_monero_private_key(state.state3), state.state3))
       ELSE Fail
    /\ Completed("ok")
    /\ UNCHANGED <<pred, db, env, netVars>>

\* AliceState::BtcRefunded
BtcRefundedBranch == AtEntry("BtcRefunded") /\ Await("create_and_load_wallet")

CreateWalletOk ==
    /\ Awaiting("create_and_load_wallet")
    /\ walletLoaded' = TRUE
    /\ GoTo(EndState("XmrRefunded"))
    /\ Completed("ok")
    /\ UNCHANGED <<pred, db, negotiated, chain, refundTx, encSig, timelock, bob, netVars>>

\* AliceState::BtcPunishable: build_bitcoin_punish_transaction(..)? then the select
BtcPunishableBranch ==
    /\ AtEntry("BtcPunishable")
    /\ \/ Await("select_punish")
       \/ /\ Fail
          /\ UNCHANGED <<pred, db, env, netVars, quiet, opResult>>

\* a punish step whose transaction never reaches the chain
SelectPunish_noBroadcast(ok) ==
    /\ Awaiting("select_punish")
    /\ ok => (timelock = "Punish" /\ refundTx = "none")
    /\ GoTo(EndState("BtcPunished"))
    /\ Completed(IF ok THEN "ok" ELSE "err")
    /\ UNCHANGED <<pred, db, env, netVars>>

\* select(..): punish_tx_finalised completes first; Either::Left(_) drops its Result
SelectPunish(ok) ==
    /\ Awaiting("select_punish")
    /\ ok => (timelock = "Punish" /\ refundTx = "none")
    /\ chain' = IF ok THEN chain \cup {"tx_punish"} ELSE chain
    /\ GoTo(EndState("BtcPunished"))
    /\ Completed(IF ok THEN "ok" ELSE "err")
    /\ UNCHANGED <<pred, db, negotiated, refundTx, encSig, timelock, walletLoaded, bob, netVars>>

\* select(..): refund_tx_seen completes first
SelectRefundSeen ==
    /\ Awaiting("select_punish")
    /\ refundTx # "none"
    /\ IF refundTx = "good"
       THEN GoTo(BtcRefunded(extract_monero_private_key(state.state3), state.state3))
       ELSE Fail
    /\ Completed("ok")
    /\ UNCHANGED <<pred, db, env, netVars>>

\* ------------------------------------------------- Bob and the two chains
\* the spend key s = s_a + s_b, as Bob reconstructs it from tx_redeem
BobSpendKey == extract_monero_private_key(State0Of(NoAmounts))

\* Bob makes a transition and checkpoints it
BobGoTo(t) == [bob EXCEPT !.tag = t, !.stored = t]
Alice == <<state, pred, pc, op, db, opResult>>

BobNegotiates ==
    /\ bob.up /\ bob.tag = "Started"
    /\ negotiated
    /\ bob' = BobGoTo("Negotiated")
    /\ quiet' = FALSE
    /\ UNCHANGED <<Alice, netVars, negotiated, chain, refundTx, encSig, timelock, walletLoaded>>

\* before he has locked his bitcoin Bob can give up at no cost
BobAborts ==
    /\ bob.up /\ bob.tag \in {"Started", "Negotiated"}
    /\ bob' = BobGoTo("SafelyAborted")
    /\ quiet' = FALSE
    /\ UNCHANGED <<Alice, netVars, negotiated, chain, refundTx, encSig, timelock, walletLoaded>>

BobLocksBtc ==
    /\ bob.up /\ bob.tag = "Negotiated"
    /\ negotiated
    /\ "tx_lock" \notin chain
    /\ chain' = chain \cup {"tx_lock"}
    /\ bob' = BobGoTo("BtcLocked")
    /\ quiet' = FALSE
    /\ UNCHANGED <<Alice, netVars, negotiated, refundTx, encSig, timelock, walletLoaded>>

\* Alice's lock_xmr has sent the transfer proof
BobReceivesLockProof ==
    /\ bob.up /\ bob.tag = "BtcLocked"
    /\ "xmr_lock" \in chain
    /\ bob' = BobGoTo("XmrLockProofReceived")
    /\ quiet' = FALSE
    /\ UNCHANGED <<Alice, netVars, negotiated, chain, refundTx, encSig, timelock, walletLoaded>>

\* the Monero lock has its confirmations
BobSeesXmrLocked ==
    /\ bob.up /\ bob.tag = "XmrLockProofReceived"
    /\ "xmr_lock" \in chain
    /\ bob' = BobGoTo("XmrLocked")
    /\ quiet' = FALSE
    /\ UNCHANGED <<Alice, netVars, negotiated, chain, refundTx, encSig, timelock, walletLoaded>>

BobSendsEncSig(sig) ==
    /\ bob.up /\ bob.tag = "XmrLocked"
    /\ "xmr_lock" \in chain
    /\ encSig = "none"
    /\ encSig' = sig
    /\ bob' = BobGoTo("EncSigSent")
    /\ quiet' = FALSE
    /\ UNCHANGED <<Alice, netVars, negotiated, chain, refundTx, timelock, walletLoaded>>

\* Bob observes tx_redeem, extracts s_a and reconstructs s
BobRedeems ==
    /\ bob.up /\ bob.tag = "EncSigSent"
    /\ "tx_redeem" \in chain
    /\ bob' = [BobGoTo("BtcRedeemed") EXCEPT !.spend_key = BobSpendKey]
    /\ quiet' = FALSE
    /\ UNCHANGED <<Alice, netVars, negotiated, chain, refundTx, encSig, timelock, walletLoaded>>

BobCancelTimelockExpired ==
    /\ bob.up /\ bob.tag \in {"BtcLocked", "XmrLockProofReceived", "XmrLocked", "EncSigSent"}
    /\ timelock # "None"
    /\ bob' = BobGoTo("CancelTimelockExpired")
    /\ quiet' = FALSE
    /\ UNCHANGED <<Alice, netVars, negotiated, chain, refundTx, encSig, timelock, walletLoaded>>

CancelTimelockPasses ==
    /\ "tx_lock" \in chain
    /\ timelock = "None"
    /\ timelock' = "Cancel"
    /\ quiet' = FALSE
    /\ UNCHANGED <<Alice, netVars, negotiated, chain, refundTx, encSig, walletLoaded, bob>>

PunishTimelockPasses ==
    /\ "tx_cancel" \in chain
    /\ timelock = "Cancel"
    /\ timelock' = "Punish"
    /\ quiet' = FALSE
    /\ UNCHANGED <<Alice, netVars, negotiated, chain, refundTx, encSig, walletLoaded, bob>>

\* tx_cancel is valid once the cancel timelock has passed; Bob holds both
\* signatures and publishes it unless Alice already has
BobPublishesCancel ==
    /\ bob.up /\ bob.tag = "CancelTimelockExpired"
    /\ timelock # "None"
    /\ "tx_redeem" \notin chain
    /\ chain' = chain \cup {"tx_cancel"}
    /\ bob' = BobGoTo("BtcCancelled")
    /\ quiet' = FALSE
    /\ UNCHANGED <<Alice, netVars, negotiated, refundTx, encSig, timelock, walletLoaded>>

BobPublishesRefund(sig) ==
    /\ bob.up /\ bob.tag = "BtcCancelled"
    /\ "tx_cancel" \in chain
    /\ "tx_punish" \notin chain
    /\ refundTx = "none"
    /\ refundTx' = sig
    /\ bob' = BobGoTo("BtcRefunded")
    /\ quiet' = FALSE
    /\ UNCHANGED <<Alice, netVars, negotiated, chain, encSig, timelock, walletLoaded>>

\* Alice's tx_punish has taken the bitcoin
BobPunished ==
    /\ bob.up /\ bob.tag = "BtcCancelled"
    /\ "tx_punish" \in chain
    /\ bob' = BobGoTo("BtcPunished")
    /\ quiet' = FALSE
    /\ UNCHANGED <<Alice, netVars, negotiated, chain, refundTx, encSig, timelock, walletLoaded>>

\* Bob's process is stopped: his in-memory state is gone, his store's entry stays
BobStops ==
    /\ bob.up
    /\ bob.restarts < MaxBobRestarts
    /\ bob' = [bob EXCEPT !.up = FALSE, !.tag = "Stopped"]
    /\ UNCHANGED <<Alice, netVars, negotiated, chain, refundTx, encSig, timelock, walletLoaded, quiet>>

\* a resume that starts Bob over instead of reading his store
BobResumes_fromStart ==
    /\ ~bob.up
    /\ bob' = [bob EXCEPT !.up = TRUE, !.tag = "Started", !.restarts = bob.restarts + 1]
    /\ UNCHANGED <<Alice, netVars, negotiated, chain, refundTx, encSig, timelock, walletLoaded, quiet>>

\* Bob is resumed from his store
BobResumes ==
    /\ ~bob.up
    /\ bob' = [bob EXCEPT !.up = TRUE, !.tag = bob.stored, !.restarts = bob.restarts + 1]
    /\ UNCHANGED <<Alice, netVars, negotiated, chain, refundTx, encSig, timelock, walletLoaded, quiet>>

Next ==
    \/ \E p \in Predicates, a \in SwapAmounts : StartSwap(p, a)
    \/ \E p \in Predicates : Resume(p)
    \/ Crash
    \/ ReturnTarget
    \/ TerminalArm
    \/ CheckpointOk
    \/ CheckpointErr
    \/ OpErr
    \/ StartedBranch
    \/ NegotiateOk
    \/ NegotiatedBranch
    \/ WaitForLockedBitcoinOk
    \/ BtcLockedBranch
    \/ LockXmrOk
    \/ XmrLockedBranch
    \/ ExpiredTimelocksOk
    \/ \E ok \in BOOLEAN : SelectCancelTimelock(ok)
    \/ SelectEncSig
    \/ EncSigLearnedBranch
    \/ PublishRedeemOk
    \/ WaitForCancelTimelockOk
    \/ CancelTimelockExpiredBranch
    \/ PublishCancelOk
    \/ BtcCancelledBranch
    \/ TransactionBlockHeight
    \/ WaitForRefundNone
    \/ WaitForRefundSome
    \/ BtcRefundedBranch
    \/ CreateWalletOk
    \/ BtcPunishableBranch
    \/ \E ok \in BOOLEAN : SelectPunish(ok)
    \/ SelectRefundSeen
    \/ BobNegotiates
    \/ BobAborts
    \/ BobLocksBtc
    \/ BobReceivesLockProof
    \/ BobSeesXmrLocked
    \/ \E sig \in {"good", "bad"} : BobSendsEncSig(sig)
    \/ BobRedeems
    \/ BobCancelTimelockExpired
    \/ CancelTimelockPasses
    \/ PunishTimelockPasses
    \/ BobPublishesCancel
    \/ \E sig \in {"good", "bad"} : BobPublishesRefund(sig)
    \/ BobPunished
    \/ BobStops
    \/ BobResumes

Spec == Init /\ [][Next]_vars

\* ------------------------------------------------- scenarios
\* Alice's driver run by swap (is_complete) when no operation fails, nothing
\* is dropped and the cancel timelock does not expire during the swap
AliceHappy ==
    \/ \E amounts \in SwapAmounts : StartSwap("is_complete", amounts)
    \/ ReturnTarget
    \/ CheckpointOk
    \/ StartedBranch
    \/ NegotiateOk
    \/ NegotiatedBranch
    \/ WaitForLockedBitcoinOk
    \/ BtcLockedBranch
    \/ LockXmrOk
    \/ XmrLockedBranch
    \/ ExpiredTimelocksOk
    \/ SelectEncSig
    \/ EncSigLearnedBranch
    \/ PublishRedeemOk

\* Bob following the protocol, resumed whenever he was stopped
BobHappy ==
    \/ BobNegotiates
    \/ BobLocksBtc
    \/ BobReceivesLockProof
    \/ BobSeesXmrLocked
    \/ BobSendsEncSig("good")
    \/ BobRedeems
    \/ BobResumes

HappyNext == AliceHappy \/ BobHappy \/ BobStops

\* both runners are tasks that are polled whenever they can make progress
SpecHappy == Init /\ [][HappyNext]_vars /\ WF_vars(AliceHappy) /\ WF_vars(BobHappy)

\* Alice's driver run by swap when no operation fails and nothing is dropped,
\* in a swap whose encrypted signature never arrives
AliceCancel ==
    \/ \E amounts \in SwapAmounts : StartSwap("is_complete", amounts)
    \/ CheckpointOk
    \/ StartedBranch
    \/ NegotiateOk
    \/ NegotiatedBranch
    \/ WaitForLockedBitcoinOk
    \/ BtcLockedBranch
    \/ LockXmrOk
    \/ XmrLockedBranch
    \/ ExpiredTimelocksOk
    \/ SelectCancelTimelock(TRUE)
    \/ CancelTimelockExpiredBranch
    \/ PublishCancelOk
    \/ BtcCancelledBranch
    \/ TransactionBlockHeight
    \/ WaitForRefundSome
    \/ BtcRefundedBranch
    \/ CreateWalletOk

\* Bob who sends no encrypted signature and refunds before the punish timelock
BobCancel ==
    \/ BobNegotiates
    \/ BobLocksBtc
    \/ BobReceivesLockProof
    \/ BobSeesXmrLocked
    \/ BobCancelTimelockExpired
    \/ BobPublishesCancel
    \/ BobPublishesRefund("good")

CancelNext == AliceCancel \/ BobCancel \/ CancelTimelockPasses

\* the runners are polled whenever they can make progress, and time passes
SpecCancel ==
    /\ Init /\ [][CancelNext]_vars
    /\ WF_vars(AliceCancel) /\ WF_vars(BobCancel) /\ WF_vars(CancelTimelockPasses)

\* Alice's driver run by swap when no operation fails and nothing is dropped,
\* in a swap whose encrypted signature never arrives and that Bob never refunds
AlicePunish ==
    \/ \E amounts \in SwapAmounts : StartSwap("is_complete", amounts)
    \/ ReturnTarget
    \/ CheckpointOk
    \/ StartedBranch
    \/ NegotiateOk
    \/ NegotiatedBranch
    \/ WaitForLockedBitcoinOk
    \/ BtcLockedBranch
    \/ LockXmrOk
    \/ XmrLockedBranch
    \/ ExpiredTimelocksOk
    \/ SelectCancelTimelock(TRUE)
    \/ CancelTimelockExpiredBranch
    \/ PublishCancelOk
    \/ BtcCancelledBranch
    \/ TransactionBlockHeight
    \/ WaitForRefundNone
    \/ BtcPunishableBranch /\ pc' = "await"
    \/ SelectPunish(TRUE)

\* Bob who sends no encrypted signature and lets the punish timelock pass
BobPunish ==
    \/ BobNegotiates
    \/ BobLocksBtc
    \/ BobReceivesLockProof
    \/ BobSeesXmrLocked
    \/ BobCancelTimelockExpired
    \/ BobPublishesCancel
    \/ BobPunished

TimePasses == CancelTimelockPasses \/ PunishTimelockPasses

PunishNext == AlicePunish \/ BobPunish \/ TimePasses

\* the runners are polled whenever they can make progress, and time passes
SpecPunish ==
    /\ Init /\ [][PunishNext]_vars
    /\ WF_vars(AlicePunish) /\ WF_vars(BobPunish) /\ WF_vars(TimePasses)

\* Alice's driver run by swap when no awaited operation fails and nothing is
\* dropped, whichever way the swap goes
AliceSwap ==
    \/ \E amounts \in SwapAmounts : StartSwap("is_complete", amounts)
    \/ ReturnTarget
    \/ CheckpointOk
    \/ StartedBranch
    \/ NegotiateOk
    \/ NegotiatedBranch
    \/ WaitForLockedBitcoinOk
    \/ BtcLockedBranch
    \/ LockXmrOk
    \/ XmrLockedBranch
    \/ ExpiredTimelocksOk
    \/ SelectCancelTimelock(TRUE)
    \/ SelectEncSig
    \/ EncSigLearnedBranch
    \/ PublishRedeemOk
    \/ WaitForCancelTimelockOk
    \/ CancelTimelockExpiredBranch
    \/ PublishCancelOk
    \/ BtcCancelledBranch
    \/ TransactionBlockHeight
    \/ WaitForRefundNone
    \/ WaitForRefundSome
    \/ BtcRefundedBranch
    \/ CreateWalletOk
    \/ BtcPunishableBranch /\ pc' = "await"
    \/ SelectPunish(TRUE)
    \/ SelectRefundSeen

\* Bob doing whatever he can do, with signatures that are good or bad
BobSwap ==
    \/ BobNegotiates
    \/ BobAborts
    \/ BobLocksBtc
    \/ BobReceivesLockProof
    \/ BobSeesXmrLocked
    \/ \E sig \in {"good", "bad"} : BobSendsEncSig(sig)
    \/ BobRedeems
    \/ BobCancelTimelockExpired
    \/ BobPublishesCancel
    \/ BobPublishesRefund("good")
    \/ BobPunished

SwapNext == AliceSwap \/ BobSwap \/ TimePasses

\* the runner is a task that is polled whenever it can make progress; Bob
\* and the clock owe nothing
SpecSwap == Init /\ [][SwapNext]_vars /\ WF_vars(AliceSwap)

\* the same swap with a runner that can be dropped at any suspension point
\* or end on a failed checkpoint, that is resumed from the store by swap, and
\* with a wait for the cancel timelock that can return an error
AliceRestart ==
    \/ AliceSwap
    \/ SelectCancelTimelock(FALSE)
    \/ Resume("is_complete")

RestartNext == AliceRestart \/ Crash \/ CheckpointErr \/ BobSwap \/ TimePasses

\* the runner is polled whenever it can make progress and is resumed whenever
\* it was dropped
SpecRestart == Init /\ [][RestartNext]_vars /\ WF_vars(AliceRestart)

\* ============================== the peer substream layer: its operations
\* the handler of peer n can still be called: the task of its connection
\* runs and no call on the handler has panicked
Alive(n) ==
    /\ handler[n].live /\ handler[n].panicked = "no"
    /\ swarm[n] \in {"connected", "established"}

\* NMessageBehaviour::inject_event: the behaviour of peer n queues what the
\* handler reported, under the id of the peer of the connection
NMessageBehaviour_inject_event(n, event) ==
    [protocol_out_events EXCEPT ![n] =
        Append(@, OutEvent(Other(n), event.kind, event.id, event.value))]

\* NMessageBehaviour::new_handler: the swarm of peer n builds the handler of
\* the connection that is being set up
new_handler(n) ==
    /\ ~link
    /\ swarm[n] = "none"
    /\ counters.connects < MaxConnects
    /\ swarm' = [swarm EXCEPT ![n] = "handler"]
    /\ handler' = [handler EXCEPT ![n] = NewHandler]
    /\ lastPoll' = [lastPoll EXCEPT ![n] = NoPoll]
    /\ UNCHANGED <<swapVars, link, protocol_in_events, protocol_out_events, connected_peers,
                   upgrade, wire, notify, custom, emitted, requests, counters>>

\* the connection between the two peers comes up: each end starts the task
\* that runs its handler, and each swarm has the new connection to report
ConnectionEstablished ==
    /\ ~link
    /\ \A n \in Peers : swarm[n] = "handler"
    /\ link' = TRUE
    /\ swarm' = [n \in Peers |-> "connected"]
    /\ counters' = [counters EXCEPT !.connects = @ + 1]
    /\ upgrade' = [n \in Peers |-> [outbound |-> FALSE, inbound |-> FALSE]]
    /\ wire' = [n \in Peers |-> NewWire]
    /\ UNCHANGED <<swapVars, protocol_in_events, protocol_out_events, connected_peers,
                   handler, notify, custom, emitted, requests, lastPoll>>

\* NMessageBehaviour::inject_connection_established: the swarm of peer n
\* reports the connection to its behaviour
inject_connection_established(n) ==
    /\ swarm[n] = "connected"
    /\ swarm' = [swarm EXCEPT ![n] = "established"]
    /\ connected_peers' = [connected_peers EXCEPT ![n] =
            [present |-> TRUE, addrs |-> @.addrs + 1]]
    /\ UNCHANGED <<swapVars, link, protocol_in_events, protocol_out_events, handler, upgrade,
                   wire, notify, custom, emitted, requests, lastPoll, counters>>

\* the connection goes down: its substreams fail from now on and what was
\* being negotiated is given up
ConnectionClosed ==
    /\ link
    /\ link' = FALSE
    /\ upgrade' = [n \in Peers |-> [outbound |-> FALSE, inbound |-> FALSE]]
    /\ wire' = [n \in Peers |-> [wire[n] EXCEPT !.broken = TRUE]]
    /\ UNCHANGED <<swapVars, swarm, protocol_in_events, protocol_out_events,
                   connected_peers, handler, notify, custom, emitted, requests, lastPoll,
                   counters>>

\* the task of the closed connection ends at peer n: the handler is dropped
\* with what it holds and with the events that were under way to it
DropHandler(n) ==
    /\ ~link
    /\ handler[n].live
    /\ swarm[n] \in {"connected", "established"}
    /\ handler' = [handler EXCEPT ![n] = NoHandler]
    /\ notify' = [notify EXCEPT ![n] = <<>>]
    /\ lastPoll' = [lastPoll EXCEPT ![n] = NoPoll]
    /\ UNCHANGED <<swapVars, link, swarm, protocol_in_events, protocol_out_events,
                   connected_peers, upgrade, wire, custom, emitted, requests, counters>>

\* NMessageBehaviour::inject_connection_closed: the swarm of peer n reports
\* the closed connection to its behaviour; the address is removed, the entry stays
inject_connection_closed(n) ==
    /\ swarm[n] = "established"
    /\ ~handler[n].live
    /\ swarm' = [swarm EXCEPT ![n] = "none"]
    /\ connected_peers' = [connected_peers EXCEPT ![n] = [present |-> TRUE, addrs |-> 0]]
    /\ UNCHANGED <<swapVars, link, protocol_in_events, protocol_out_events, handler, upgrade,
                   wire, notify, custom, emitted, requests, lastPoll, counters>>

\* do_protocol_listener / do_protocol_dialer push the request for the other peer
Submit(n, dir) ==
    /\ Len(requests) < MaxRequests
    /\ requests' = Append(requests, [node |-> n, dir |-> dir])
    /\ protocol_in_events' = [protocol_in_events EXCEPT ![n] =
            Append(@, [peer |-> Other(n), dir |-> dir, id |-> Len(requests) + 1])]
    /\ UNCHANGED <<swapVars, link, swarm, protocol_out_events, connected_peers, handler,
                   upgrade, wire, notify, custom, emitted, lastPoll, counters>>

do_protocol_listener(n) == Submit(n, "ExecuteInbound")

do_protocol_dialer(n) == Submit(n, "ExecuteOutbound")

\* NMessageBehaviour::poll returns NotifyHandler, GenerateEvent or Pending to
\* the swarm; the swarm sends a NotifyHandler on to the task of the peer's
\* connection, or to nobody when it knows no connection to the peer
BehaviourPoll(n) ==
    LET q == protocol_in_events[n]
        out == protocol_out_events[n]
    IN  IF q # <<>> /\ connected_peers[n].present
        THEN /\ protocol_in_events' = [protocol_in_events EXCEPT ![n] = Tail(q)]
             /\ notify' = IF swarm[n] = "established" /\ handler[n].live
                          THEN [notify EXCEPT ![n] = Append(@, Head(q))]
                          ELSE notify
             /\ UNCHANGED <<swapVars, link, swarm, protocol_out_events, connected_peers,
                            handler, upgrade, wire, custom, emitted, requests, lastPoll,
                            counters>>
        ELSE /\ protocol_in_events' = [protocol_in_events EXCEPT ![n] =
                    IF q # <<>> THEN Append(Tail(q), Head(q)) ELSE q]
             /\ IF out # <<>>
                THEN /\ protocol_out_events' = [protocol_out_events EXCEPT ![n] = Tail(out)]
                     /\ emitted' = [emitted EXCEPT ![n] = Append(@, Head(out))]
                ELSE UNCHANGED <<protocol_out_events, emitted>>
             /\ UNCHANGED <<swapVars, link, swarm, connected_peers, handler, upgrade, wire,
                            notify, custom, requests, lastPoll, counters>>

\* NMessageHandler::inject_event: the task of the connection passes the next
\* NotifyHandler event to the handler; a handler that has panicked takes none
HandlerInjectEvent(n) ==
    /\ notify[n] # <<>>
    /\ handler[n].live
    /\ notify' = [notify EXCEPT ![n] = Tail(@)]
    /\ handler' = IF handler[n].panicked = "no"
                  THEN [handler EXCEPT ![n] = inject_event(handler[n], Head(notify[n]))]
                  ELSE handler
    /\ UNCHANGED <<swapVars, link, swarm, protocol_in_events, protocol_out_events,
                   connected_peers, upgrade, wire, custom, emitted, requests, lastPoll,
                   counters>>

\* what NMessageHandler::poll returns in Custom(..), on its way to the behaviour
Custom(kind, id, value) == [kind |-> kind, id |-> id, value |-> value]

\* NMessageHandler::poll; an OutboundSubstreamRequest makes the swarm negotiate
\* a substream with the peer, a Custom event is returned to the swarm
HandlerPoll(n) ==
    LET h == handler[n]
        inWire == IF h.inbound_state.stray THEN NewWire ELSE wire[Other(n)]
        ri == PollListener(h.inbound_state, inWire)
        ro == PollDialer(h.outbound_state, wire[n])
    IN  /\ Alive(n)
        /\ IF h.substream_request
           THEN /\ handler' = [handler EXCEPT ![n].substream_request = FALSE]
                /\ upgrade' = IF link
                              THEN [upgrade EXCEPT ![n].outbound = TRUE,
                                                   ![Other(n)].inbound = TRUE]
                              ELSE upgrade
                /\ lastPoll' = [lastPoll EXCEPT ![n] = NoPoll]
                /\ UNCHANGED <<wire, custom>>
           ELSE IF h.inbound_state.tag = "ReadyToPoll"
           THEN /\ handler' = [handler EXCEPT ![n].inbound_state = ri.st]
                /\ wire' = IF h.inbound_state.stray
                           THEN wire
                           ELSE [wire EXCEPT ![Other(n)] = ri.wire]
                /\ custom' =
                        CASE ri.poll = "Ok" -> [custom EXCEPT ![n] = Append(@,
                                    Custom("InboundFinished", h.inbound_state.id, ri.value))]
                          [] ri.poll = "Err" -> [custom EXCEPT ![n] = Append(@,
                                    Custom("InboundFailed", h.inbound_state.id, ri.value))]
                          [] OTHER -> custom
                /\ lastPoll' = [lastPoll EXCEPT ![n] =
                        [inbound |-> ri.poll,
                         outbound |-> IF ri.poll = "Pending"
                                         /\ h.outbound_state.tag = "ReadyToPoll"
                                      THEN "skipped"
                                      ELSE "none"]]
                /\ UNCHANGED upgrade
           ELSE IF h.outbound_state.tag = "ReadyToPoll"
           THEN /\ handler' = [handler EXCEPT ![n].outbound_state = ro.st]
                /\ wire' = [wire EXCEPT ![n] = ro.wire]
                /\ custom' =
                        CASE ro.poll = "Ok" -> [custom EXCEPT ![n] = Append(@,
                                    Custom("OutboundFinished", h.outbound_state.id, ro.value))]
                          [] ro.poll = "Err" -> [custom EXCEPT ![n] = Append(@,
                                    Custom("OutboundFailed", h.outbound_state.id, ro.value))]
                          [] OTHER -> custom
                /\ lastPoll' = [lastPoll EXCEPT ![n] =
                        [inbound |-> "none", outbound |-> ro.poll]]
                /\ UNCHANGED upgrade
           ELSE /\ lastPoll' = [lastPoll EXCEPT ![n] = NoPoll]
                /\ UNCHANGED <<handler, wire, custom, upgrade>>
        /\ UNCHANGED <<swapVars, link, swarm, protocol_in_events, protocol_out_events,
                       connected_peers, notify, emitted, requests, counters>>

\* the swarm of peer n passes the next Custom event of the handler to the
\* behaviour (NMessageBehaviour::inject_event)
BehaviourInjectEvent(n) ==
    /\ custom[n] # <<>>
    /\ custom' = [custom EXCEPT ![n] = Tail(@)]
    /\ protocol_out_events' = NMessageBehaviour_inject_event(n, Head(custom[n]))
    /\ UNCHANGED <<swapVars, link, swarm, protocol_in_events, connected_peers, handler,
                   upgrade, wire, notify, emitted, requests, lastPoll, counters>>

\* the swarm has negotiated the substream peer n asked for
InjectFullyNegotiatedOutbound(n) ==
    /\ Alive(n)
    /\ upgrade[n].outbound
    /\ upgrade' = [upgrade EXCEPT ![n].outbound = FALSE]
    /\ handler' = [handler EXCEPT ![n] = inject_fully_negotiated_outbound(handler[n])]
    /\ UNCHANGED <<swapVars, link, swarm, protocol_in_events, protocol_out_events,
                   connected_peers, wire, notify, custom, emitted, requests, lastPoll,
                   counters>>

\* the substream the other peer asked for arrives at peer n
InjectFullyNegotiatedInbound(n) ==
    /\ Alive(n)
    /\ upgrade[n].inbound
    /\ upgrade' = [upgrade EXCEPT ![n].inbound = FALSE]
    /\ handler' = [handler EXCEPT ![n] = inject_fully_negotiated_inbound(handler[n], FALSE)]
    /\ UNCHANGED <<swapVars, link, swarm, protocol_in_events, protocol_out_events,
                   connected_peers, wire, notify, custom, emitted, requests, lastPoll,
                   counters>>

\* the negotiation of the substream peer n asked for fails
InjectDialUpgradeError(n) ==
    /\ Alive(n)
    /\ upgrade[n].outbound /\ upgrade[Other(n)].inbound
    /\ upgrade' = [upgrade EXCEPT ![n].outbound = FALSE, ![Other(n)].inbound = FALSE]
    /\ handler' = [handler EXCEPT ![n] = inject_dial_upgrade_error(handler[n])]
    /\ UNCHANGED <<swapVars, link, swarm, protocol_in_events, protocol_out_events,
                   connected_peers, wire, notify, custom, emitted, requests, lastPoll,
                   counters>>

\* the other peer opens a substream of the protocol on its own
StraySubstream(n) ==
    /\ link
    /\ Alive(n)
    /\ counters.strays < MaxStray
    /\ counters' = [counters EXCEPT !.strays = @ + 1]
    /\ handler' = [handler EXCEPT ![n] = inject_fully_negotiated_inbound(handler[n], TRUE)]
    /\ UNCHANGED <<swapVars, link, swarm, protocol_in_events, protocol_out_events,
                   connected_peers, upgrade, wire, notify, custom, emitted, requests,
                   lastPoll>>

\* reading or writing the substream peer n dialed starts to fail
WireBreaks(n) ==
    /\ link
    /\ ~wire[n].broken
    /\ \/ handler[n].outbound_state.tag \in {"PendingProtocolFn", "ReadyToPoll"}
       \/ handler[Other(n)].inbound_state.tag \in {"PendingProtocolFn", "ReadyToPoll"}
    /\ wire' = [wire EXCEPT ![n].broken = TRUE]
    /\ UNCHANGED <<swapVars, link, swarm, protocol_in_events, protocol_out_events,
                   connected_peers, handler, upgrade, notify, custom, emitted, requests,
                   lastPoll, counters>>

NetNext ==
    \/ \E n \in Peers : new_handler(n)
    \/ ConnectionEstablished
    \/ \E n \in Peers : inject_connection_established(n)
    \/ ConnectionClosed
    \/ \E n \in Peers : DropHandler(n)
    \/ \E n \in Peers : inject_connection_closed(n)
    \/ \E n \in Peers : do_protocol_listener(n)
    \/ \E n \in Peers : do_protocol_dialer(n)
    \/ \E n \in Peers : BehaviourPoll(n)
    \/ \E n \in Peers : HandlerInjectEvent(n)
    \/ \E n \in Peers : HandlerPoll(n)
    \/ \E n \in Peers : BehaviourInjectEvent(n)
    \/ \E n \in Peers : InjectFullyNegotiatedOutbound(n)
    \/ \E n \in Peers : InjectFullyNegotiatedInbound(n)
    \/ \E n \in Peers : InjectDialUpgradeError(n)
    \/ \E n \in Peers : StraySubstream(n)
    \/ \E n \in Peers : WireBreaks(n)

SpecNet == Init /\ [][NetNext]_vars

\* ---------------------------------------------- the test it_works
\* the parts of the test: alice_do_protocol(peer, 10, 42) submits the dialer
\* protocol, bob_do_protocol(peer, 1337) the listener protocol; each is called
\* once, by one peer of the pair for the other
alice_do_protocol(n) ==
    /\ \A i \in 1..Len(requests) :
            requests[i].node # n /\ requests[i].dir # "ExecuteOutbound"
    /\ do_protocol_dialer(n)
bob_do_protocol(n) ==
    /\ \A i \in 1..Len(requests) :
            requests[i].node # n /\ requests[i].dir # "ExecuteInbound"
    /\ do_protocol_listener(n)

\* new_connected_swarm_pair: both swarms are driven until the pair is connected
new_connected_swarm_pair ==
    \/ \E n \in Peers : new_handler(n)
    \/ ConnectionEstablished
    \/ \E n \in Peers : inject_connection_established(n)

\* the two calls are made once the pair is connected
ItWorksCalls ==
    /\ \A n \in Peers : swarm[n] = "established"
    /\ \/ \E n \in Peers : alice_do_protocol(n)
       \/ \E n \in Peers : bob_do_protocol(n)

ItWorksNext ==
    \/ new_connected_swarm_pair
    \/ ItWorksCalls
    \/ \E n \in Peers : BehaviourPoll(n)
    \/ \E n \in Peers : HandlerInjectEvent(n)
    \/ \E n \in Peers : HandlerPoll(n)
    \/ \E n \in Peers : BehaviourInjectEvent(n)
    \/ \E n \in Peers : InjectFullyNegotiatedOutbound(n)
    \/ \E n \in Peers : InjectFullyNegotiatedInbound(n)

\* both swarms are polled again and again; the connection comes up, both
\* calls are made and the substream the dialer asks for is negotiated
SpecItWorks ==
    /\ Init /\ [][ItWorksNext]_vars
    /\ WF_vars(new_connected_swarm_pair)
    /\ WF_vars(ItWorksCalls)
    /\ \A n \in Peers :
          /\ WF_vars(BehaviourPoll(n)) /\ WF_vars(HandlerPoll(n))
          /\ WF_vars(HandlerInjectEvent(n)) /\ WF_vars(BehaviourInjectEvent(n))
          /\ WF_vars(InjectFullyNegotiatedOutbound(n))
          /\ WF_vars(InjectFullyNegotiatedInbound(n))

TypeOK ==
    /\ state.tag \in Tags \cup {"none"}
    /\ pred \in Predicates
    /\ pc \in {"new", "entry", "await", "ckpt", "done", "failed", "crashed"}
    /\ chain \subseteq {"tx_lock", "xmr_lock", "tx_redeem", "tx_cancel", "tx_punish"}
    /\ timelock \in {"None", "Cancel", "Punish"}
    /\ opResult \in {"none", "ok", "err"}
    /\ bob.tag \in BobTags \cup {"Stopped"}
    /\ bob.stored \in BobTags
\* ================================================================ claims
Terminal == {"XmrRefunded", "BtcRedeemed", "BtcPunished", "SafelyAborted"}

\* Bob's run has ended: the variants his runner returns from
BobTerminal == {"BtcRedeemed", "BtcRefunded", "BtcPunished", "SafelyAborted"}

\* the swap has terminated: Alice's swap has returned a state and Bob's run has ended
Terminated == pc = "done" /\ pred = "is_complete" /\ bob.stored \in BobTerminal

\* the four joint outcomes, as what has happened on the two chains and to the
\* two parties: Alice has taken the bitcoin with tx_redeem and Bob holds the
\* Monero spend key; Bob has his bitcoin back through tx_refund and Alice has
\* the Monero back in her recovery wallet; Alice has taken the bitcoin with
\* tx_punish; Alice has given up without having locked her Monero
BtcRedeemedAndXmrRedeemed ==
    /\ "tx_redeem" \in chain
    /\ bob.stored = "BtcRedeemed" /\ bob.spend_key = BobSpendKey
BtcRefundedAndXmrRefunded ==
    /\ refundTx # "none" /\ bob.stored = "BtcRefunded"
    /\ walletLoaded
OutcomeBtcPunished == "tx_punish" \in chain
OutcomeSafelyAborted == state.tag = "SafelyAborted" /\ "xmr_lock" \notin chain
OutcomeCount ==
    (IF BtcRedeemedAndXmrRedeemed THEN 1 ELSE 0) + (IF BtcRefundedAndXmrRefunded THEN 1 ELSE 0)
    + (IF OutcomeBtcPunished THEN 1 ELSE 0) + (IF OutcomeSafelyAborted THEN 1 ELSE 0)

\* C1: when the swap has terminated, exactly one of the four joint outcomes
\* holds: never two of them, never none
C1_ExactlyOneOutcome ==
    Terminated => OutcomeCount = 1

\* C2: Alice is in SafelyAborted (in memory or in the store) only if her
\* Monero lock transfer was never published
C2_AbortOnlyBeforeXmrLock ==
    (state.tag = "SafelyAborted" \/ db.end_state = "SafelyAborted") => "xmr_lock" \notin chain

\* C3: a driver that holds Negotiated or BtcLocked without a channel (as every
\* resumed driver does) steps to SafelyAborted without awaiting any operation
\* and without touching chain or peer, and the checkpoint that follows stores
\* SafelyAborted
ChannelAbsent ==
    /\ pc = "entry"
    /\ state.tag \in {"Negotiated", "BtcLocked"}
    /\ state.channel = "None"
C3_NoChannelAborts ==
    [][ /\ (pc \in {"done", "failed", "crashed"} /\ pc' = "entry")
            => state'.channel = "None"
        /\ (ChannelAbsent /\ pc' \notin {"entry", "crashed"})
            => /\ pc' = "ckpt"
               /\ state' = EndState("SafelyAborted")
               /\ op' = "none"
               /\ env' = env
               /\ db' = db
        /\ (pc = "ckpt" /\ state.tag = "SafelyAborted" /\ pc' = "entry")
            => db' = ToDb(EndState("SafelyAborted")) ]_vars
C3_Witness ==
    /\ pc = "entry"
    /\ state.tag = "SafelyAborted"
    /\ db = ToDb(EndState("SafelyAborted"))
    /\ "tx_lock" \in chain
    /\ "xmr_lock" \notin chain

\* the edges of the transition table of the Alice state machine
LegalTagEdges ==
    {<<"Started", "Negotiated">>, <<"Negotiated", "BtcLocked">>,
     <<"Negotiated", "SafelyAborted">>, <<"BtcLocked", "XmrLocked">>,
     <<"BtcLocked", "SafelyAborted">>, <<"XmrLocked", "EncSigLearned">>,
     <<"XmrLocked", "CancelTimelockExpired">>, <<"EncSigLearned", "BtcRedeemed">>,
     <<"EncSigLearned", "CancelTimelockExpired">>, <<"CancelTimelockExpired", "BtcCancelled">>,
     <<"BtcCancelled", "BtcPunishable">>, <<"BtcCancelled", "BtcRefunded">>,
     <<"BtcPunishable", "BtcPunished">>, <<"BtcPunishable", "BtcRefunded">>,
     <<"BtcRefunded", "XmrRefunded">>}
LegalEdge(s, t) ==
    /\ <<s.tag, t.tag>> \in LegalTagEdges
    /\ (s.tag \in {"Negotiated", "BtcLocked"} /\ t.tag = "SafelyAborted") => s.channel = "None"
    /\ (s.tag \in {"Negotiated", "BtcLocked"} /\ t.tag # "SafelyAborted") => s.channel = "Some"

\* C4: every change of the driver's state, and every change of the store's
\* entry, follows an edge of the transition table
C4_LegalTransitions ==
    [][ /\ (pc \in Running /\ pc' \in Running /\ state' # state) => LegalEdge(state, state')
        /\ (db' # db /\ db # NoEntry) => <<FromDb(db).tag, FromDb(db').tag>> \in LegalTagEdges
        /\ (db' # db /\ db = NoEntry) => db'.tag = "Negotiated" ]_vars
C4_Witness ==
    pc = "ckpt" /\ state.tag = "BtcRefunded" /\ db.tag = "BtcPunishable"

\* C5: a driver entered with a terminal state returns that state, writes
\* nothing and awaits nothing, whatever its predicate; a terminal entry of
\* the store is never replaced
C5_TerminalAbsorbing ==
    [][ /\ (pc = "entry" /\ state.tag \in Terminal)
            => /\ pc' \in {"entry", "done", "crashed"}
               /\ db' = db
               /\ pc' # "crashed" => state' = state
               /\ op' = op
        /\ (pc = "done" /\ state.tag \in Terminal /\ pc' = "entry") => state' = state
        /\ db.tag = "Done" => db' = db ]_vars
C5_Witness ==
    pc = "done" /\ state.tag = "BtcPunished" /\ pred = "is_xmr_locked" /\ quiet

\* C6: whenever the driver processes a state other than the initial Started,
\* the store's entry is the persisted form of that state
C6_CheckpointBeforeProcessing ==
    (pc \in {"entry", "await"} /\ state.tag # "Started") => db = ToDb(state)
C6_Witness ==
    pc = "await" /\ state.tag = "BtcLocked" /\ state.channel = "Some"

\* C7: an awaited operation that completes with an error ends the run with
\* the store unchanged, and so does dropping the driver; a run that ended
\* this way makes no further transition
C7_NoWriteOnFailure ==
    [][ /\ (opResult' = "err" /\ opResult # "err") => (pc' = "failed" /\ db' = db)
        /\ opResult = "err" => (pc = "failed" /\ db' = db)
        /\ pc' = "crashed" => db' = db ]_vars

\* C8: a failed checkpoint write ends the run with an error, drops the new
\* state, leaves the store and both chains as they were, and the next
\* resume starts from the entry that was there before
C8_FailedCheckpoint ==
    [][ /\ (pc = "ckpt" /\ pc' = "failed")
            => /\ db' = db
               /\ state' = Dropped
               /\ env' = env
        /\ (pc = "failed" /\ pc' # "failed")
            => /\ pc' = "entry"
               /\ db' = db
               /\ state' = FromDb(db) ]_vars
C8_Witness ==
    /\ pc = "failed"
    /\ opResult = "ok"
    /\ db.tag = "EncSigLearned"
    /\ "tx_redeem" \in chain

\* C9 as stated: while nothing happens after a resume, the store keeps its entry
C9_ResumeKeepsStore ==
    [][ (quiet /\ quiet') => db' = db ]_vars

\* C9 amended: a resume re-enters the persisted state and leaves the store
\* alone; while no awaited operation completes and no event occurs after it,
\* the only change of the store is Negotiated or BtcLocked becoming SafelyAborted
C9_ResumeIdempotent ==
    [][ /\ (pc \in {"done", "failed", "crashed"} /\ pc' = "entry")
            => (db' = db /\ ToDb(state') = db)
        /\ (quiet /\ quiet' /\ db' # db)
            => /\ db.tag \in {"Negotiated", "BtcLocked"}
               /\ db' = ToDb(EndState("SafelyAborted")) ]_vars
C9_Witness ==
    /\ quiet
    /\ pc = "entry"
    /\ db = ToDb(EndState("SafelyAborted"))
    /\ "tx_lock" \notin chain

\* what a round trip through the store is to yield for state s
RoundTrip(s) ==
    [s EXCEPT !.channel = "None",
              !.tx_cancel = IF s.tag = "BtcCancelled" THEN TxCancelNew(s.state3) ELSE NoTx,
              !.tx_refund = IF s.tag = "BtcPunishable"
                            THEN TxRefundNew(TxCancelNew(s.state3), s.state3.id) ELSE NoTx]

\* C10: persisting a state the driver holds and loading it again gives the
\* same variant with the same amounts, state0 / state3, encrypted signature
\* and spend key, without channel, tx_cancel and tx_refund rebuilt from state3
C10_RoundTrip ==
    state.tag \in Tags => FromDb(ToDb(state)) = RoundTrip(state)
C10_Witness ==
    pc = "ckpt" /\ state.tag = "BtcRefunded" /\ state.spend_key # 0

\* C12: at XmrLocked the select is decided by the first completion: it is
\* awaited only in XmrLocked, and a run that leaves it has taken exactly one of
\* the two branches: EncSigLearned, with the signature that has arrived, or
\* CancelTimelockExpired, with the cancel timelock expired; both futures are
\* gone afterwards and nothing else has changed
C12_RaceDecidedByFirstCompletion ==
    /\ [](op = "select_enc_sig" => (pc = "await" /\ state.tag = "XmrLocked"))
    /\ [][(Awaiting("select_enc_sig") /\ pc' \notin {"await", "crashed"}) =>
            /\ op' = "none"
            /\ db' = db /\ env' = env
            /\ pc' = "ckpt"
            /\ \/ /\ encSig # "none"
                  /\ state' = EncSigLearned(state.state3, encSig)
               \/ /\ timelock # "None"
                  /\ state' = CancelTimelockExpired(state.state3)]_vars

\* C13: Alice moves from BtcPunishable to BtcPunished only when her tx_punish
\* was published before a refund was seen; a publication that completes with
\* an error does not take her there
C13_PunishedOnlyWhenPublished ==
    [][(state.tag = "BtcPunishable" /\ state'.tag = "BtcPunished") =>
            ("tx_punish" \in chain' /\ refundTx = "none" /\ opResult' = "ok")]_vars

\* C14: once Bob's tx_refund is published while Alice is in BtcPunishable and
\* tx_punish is not, Alice does not move to BtcPunished
C14_RefundSeenNotPunished ==
    [][(state.tag = "BtcPunishable" /\ refundTx # "none" /\ "tx_punish" \notin chain) =>
            state'.tag # "BtcPunished"]_vars

\* C15: Alice holds the spend key, in memory or in the store, only when a
\* published tx_refund is on the Bitcoin chain; Bob holds s only when tx_redeem is
C15_KeyOnlyAfterPublication ==
    /\ (state.spend_key # 0 \/ db.spend_key # 0) => refundTx # "none"
    /\ bob.spend_key # 0 => "tx_redeem" \in chain
C15_Witness ==
    pc = "ckpt" /\ state.tag = "BtcRefunded" /\ state.spend_key # 0 /\ db.spend_key = 0

\* a published refund transaction from which the key extraction fails
ExtractionFails == refundTx = "bad"
\* the driver is in EncSigLearned with a signature the redeem build rejects
RedeemBuildFails ==
    AtEntry("EncSigLearned") /\ state.encrypted_signature # "good"

\* C16 as stated: a failed redeem build in EncSigLearned and a failed key
\* extraction both end the run with an error, and a run that ended with an
\* error makes no further transition
C16_CryptoErrorHalts ==
    /\ [][(RedeemBuildFails /\ pc' \notin {"entry", "crashed"}) => pc' = "failed"]_vars
    /\ [][ExtractionFails => state'.tag # "BtcRefunded"]_vars
    /\ [][pc = "failed" => db' = db]_vars

\* C16 amended: a failed key extraction ends the run with an error and the
\* ended run changes nothing any more; a failed redeem build does not end the
\* run: Alice awaits the cancel timelock, publishes nothing, and moves to
\* CancelTimelockExpired
C16_CryptoErrors ==
    /\ [][(RedeemBuildFails /\ pc' \notin {"entry", "crashed"}) =>
            /\ pc' = "await" /\ op' = "wait_for_cancel_timelock"
            /\ state' = state /\ db' = db /\ chain' = chain]_vars
    /\ [][(Awaiting("wait_for_cancel_timelock") /\ pc' = "ckpt") =>
            /\ timelock # "None"
            /\ state' = CancelTimelockExpired(state.state3)
            /\ chain' = chain]_vars
    /\ [][ExtractionFails => state'.tag # "BtcRefunded"]_vars
    /\ [][(pc = "await" /\ op \in {"wait_for_bitcoin_refund", "select_punish"}
           /\ ExtractionFails /\ state'.tag \notin {"BtcPunishable", "BtcPunished"}
           /\ pc' \notin {"await", "crashed"}) => (pc' = "failed" /\ state' = Dropped)]_vars
    /\ [][pc = "failed" => db' = db]_vars
C16_Witness ==
    /\ pc = "ckpt" /\ state.tag = "CancelTimelockExpired"
    /\ db.tag = "EncSigLearned" /\ db.encrypted_signature = "bad"
    /\ "tx_redeem" \notin chain

\* C17 as stated: when negotiate fails in Started, Alice's state in memory and
\* in the store is SafelyAborted
C17_NegotiationFailureAborts ==
    [][(Awaiting("negotiate") /\ pc' = "failed") =>
            (state'.tag = "SafelyAborted" /\ db'.end_state = "SafelyAborted")]_vars

\* C17 amended: when negotiate fails in Started, run_until returns the error
\* and nothing else happens: the in-memory state is dropped, the store still
\* has no entry for the swap, and with no entry nothing can be resumed
C17_NegotiationFailureLeavesNothing ==
    /\ [][(Awaiting("negotiate") /\ pc' = "failed") =>
            /\ opResult' = "err"
            /\ state' = Dropped
            /\ db = NoEntry /\ db' = NoEntry
            /\ env' = env]_vars
    /\ [][(pc = "failed" /\ db = NoEntry) =>
            (pc' = "failed" /\ state' = Dropped /\ db' = NoEntry)]_vars
C17_Witness ==
    pc = "failed" /\ opResult = "err" /\ db = NoEntry /\ ~negotiated /\ state = Dropped

\* both parties have finished the swap as redeemed
BothRedeemed ==
    pc = "done" /\ state.tag = "BtcRedeemed" /\ bob.tag = "BtcRedeemed"

\* C18: restarting Bob is transparent: he is resumed in the state he was
\* stopped in, and when he was stopped in XmrLockProofReceived and Alice keeps
\* running, the swap still ends with Bob and Alice both in BtcRedeemed
C18_BobRestartTransparent ==
    /\ [][(bob.up /\ ~bob'.up) => bob'.stored = bob.tag]_vars
    /\ [][(~bob.up /\ bob'.up) => bob'.tag = bob.stored]_vars
    /\ [][~bob.up => bob'.stored = bob.stored]_vars
    /\ (~bob.up /\ bob.stored = "XmrLockProofReceived") ~> BothRedeemed
C18_Witness ==
    bob.up /\ bob.restarts > 0 /\ bob.tag = "XmrLockProofReceived"

\* C19: on the happy path (negotiation succeeds, tx_lock confirms, the XMR lock
\* succeeds, the encrypted signature arrives before the cancel timelock
\* expires, no wallet operation fails) Alice eventually stays terminated in
\* BtcRedeemed and Bob in BtcRedeemed holding the spend key s
C19_HappyPathLiveness ==
    <>[](BothRedeemed /\ bob.spend_key = BobSpendKey /\ "tx_redeem" \in chain)
C19_Witness ==
    BothRedeemed /\ bob.spend_key = BobSpendKey /\ bob.restarts = 0

\* the tag changes of Alice's cancel-and-refund path
CancelPath == {<<"XmrLocked", "CancelTimelockExpired">>,
               <<"CancelTimelockExpired", "BtcCancelled">>,
               <<"BtcCancelled", "BtcRefunded">>,
               <<"BtcRefunded", "XmrRefunded">>}

\* C20: when the encrypted signature does not arrive before the cancel timelock
\* expires and Bob publishes tx_refund before the punish timelock, Alice goes
\* XmrLocked -> CancelTimelockExpired -> BtcCancelled -> BtcRefunded ->
\* XmrRefunded, by these steps only, and Bob ends in BtcRefunded
C20_CancelRace ==
    /\ [][(state.tag \in {"XmrLocked", "CancelTimelockExpired", "BtcCancelled", "BtcRefunded"}
           /\ state'.tag # state.tag) => <<state.tag, state'.tag>> \in CancelPath]_vars
    /\ [](state.tag = "XmrLocked" =>
            <>[](pc = "done" /\ state.tag = "XmrRefunded" /\ bob.tag = "BtcRefunded"))
C20_Witness ==
    /\ pc = "done" /\ state.tag = "XmrRefunded" /\ db.end_state = "XmrRefunded"
    /\ bob.tag = "BtcRefunded" /\ encSig = "none" /\ timelock = "Cancel"

\* the tag changes of Alice's punish path
PunishPath == {<<"BtcCancelled", "BtcPunishable">>, <<"BtcPunishable", "BtcPunished">>}

\* C21: when tx_cancel is published and Bob does not publish tx_refund before
\* the punish timelock expires, Alice goes BtcCancelled -> BtcPunishable ->
\* BtcPunished, by these steps only and with tx_punish on the chain, and Bob
\* ends in BtcPunished
C21_PunishPath ==
    /\ [][(state.tag \in {"BtcCancelled", "BtcPunishable"} /\ state'.tag # state.tag)
            => <<state.tag, state'.tag>> \in PunishPath]_vars
    /\ [](state.tag = "BtcCancelled" =>
            <>[](/\ pc = "done" /\ state.tag = "BtcPunished" /\ "tx_punish" \in chain
                 /\ bob.tag = "BtcPunished"))
C21_Witness ==
    /\ pc = "done" /\ state.tag = "BtcPunished" /\ db.end_state = "BtcPunished"
    /\ bob.tag = "BtcPunished" /\ refundTx = "none" /\ timelock = "Punish"

\* C30: in EncSigLearned, entered from XmrLocked or on resume, Alice goes on
\* to publish tx_redeem whenever the redeem transaction builds, whatever the
\* cancel timelock says, and a publication that succeeds takes her to
\* BtcRedeemed with tx_redeem on the chain, also after the timelock expired
C30_RedeemIgnoresTimelock ==
    /\ [][(AtEntry("EncSigLearned") /\ state.encrypted_signature = "good"
           /\ pc' \notin {"entry", "crashed"})
            => (pc' = "await" /\ op' = "publish_redeem" /\ timelock' = timelock)]_vars
    /\ [][(Awaiting("publish_redeem") /\ pc' = "ckpt")
            => (state'.tag = "BtcRedeemed" /\ "tx_redeem" \in chain')]_vars
C30_Witness ==
    /\ pc = "ckpt" /\ state.tag = "BtcRedeemed" /\ "tx_redeem" \in chain
    /\ db.tag = "EncSigLearned" /\ timelock = "Cancel" /\ bob.tag = "CancelTimelockExpired"

\* ------------------------------------------- the peer substream layer
\* the events that answer request i: under way to the behaviour of peer n,
\* held by it, or emitted
EventsFor(n, i) ==
    Cardinality({k \in 1..Len(custom[n]) : custom[n][k].id = i})
    + Cardinality({k \in 1..Len(protocol_out_events[n]) : protocol_out_events[n][k].id = i})
    + Cardinality({k \in 1..Len(emitted[n]) : emitted[n][k].id = i})
\* request i waits in the queue of peer n or is under way to its handler
InQueue(n, i) ==
    \/ \E k \in 1..Len(protocol_in_events[n]) : protocol_in_events[n][k].id = i
    \/ \E k \in 1..Len(notify[n]) : notify[n][k].id = i
HeldBy(n, i) ==
    Alive(n) /\ (handler[n].inbound_state.id = i \/ handler[n].outbound_state.id = i)
\* the first connection is still open, every substream asked for was
\* negotiated and the peer opened none on its own
Undisturbed ==
    /\ link /\ counters.connects = 1 /\ counters.strays = 0
    /\ \A n \in Peers : handler[n].panicked # "inject_dial_upgrade_error"

\* C22: every submitted request is answered by exactly one event, also when
\* several requests of the same direction go to the same peer: while nothing
\* disturbs the connection a request is still queued, or held by a handler
\* that runs, or has its one event; and it never has two
C22_OneEventPerRequest ==
    Undisturbed =>
        \A i \in 1..Len(requests) :
            /\ EventsFor(requests[i].node, i) <= 1
            /\ \/ InQueue(requests[i].node, i)
               \/ HeldBy(requests[i].node, i)
               \/ EventsFor(requests[i].node, i) = 1

QueuedIds(q) == {q[k].id : k \in 1..Len(q)}

\* C23: while the peer has no open connection, because it never connected or
\* because its connections have closed, no request for it leaves the queue of
\* the behaviour
C23_QueuedWhileDisconnected ==
    [][\A n \in Peers : connected_peers[n].addrs = 0 =>
            QueuedIds(protocol_in_events[n]) \subseteq QueuedIds(protocol_in_events'[n])]_vars

\* the requests that leave the queue of peer n for its handler in this step
HandedOver(n) ==
    {i \in QueuedIds(protocol_in_events[n]) \ QueuedIds(protocol_in_events'[n]) :
        QueuedIds(notify'[n]) # QueuedIds(notify[n])}
\* the requests whose closure reaches the handler of peer n in this step
Delivered(n) ==
    IF notify[n] # <<>> /\ notify'[n] = Tail(notify[n]) /\ handler'[n].live
    THEN {Head(notify[n]).id}
    ELSE {}

\* C24: delivery is first in, first out per direction and peer: when a
\* request is handed to the handler, no request of the same direction that was
\* submitted before it is still waiting in the queue
C24_FifoPerDirection ==
    [][\A n \in Peers : \A i \in HandedOver(n) :
            \A j \in QueuedIds(protocol_in_events'[n]) :
                requests[j].dir = requests[i].dir => i < j]_vars

\* C25: the two directions of a handler progress independently: a poll that
\* finds the inbound protocol in flight and not yet ready still polls the
\* outbound protocol of the handler when there is one
C25_DirectionsIndependent ==
    \A n \in Peers : lastPoll[n].inbound = "Pending" => lastPoll[n].outbound # "skipped"

\* the handler of peer n is the same before and after the step, and runs
SameHandler(n) == Alive(n) /\ handler'[n].live /\ handler'[n].panicked = "no"
\* a substream arrives in this step
SubstreamArrives == upgrade' # upgrade \/ counters'.strays # counters.strays
\* one direction of the handler of peer n goes from a to b along the state machine
LegalMove(n, a, b) ==
    \/ a.tag = b.tag /\ a.id = b.id /\ a.stray = b.stray
    \/ a.tag = "None" /\ b.tag = "PendingSubstream" /\ b.id \in Delivered(n)
    \/ a.tag = "None" /\ b.tag = "PendingProtocolFn" /\ SubstreamArrives
    \/ /\ a.tag = "PendingSubstream" /\ b.tag = "ReadyToPoll"
       /\ b.id = a.id /\ b.id # 0 /\ SubstreamArrives
    \/ /\ a.tag = "PendingProtocolFn" /\ b.tag = "ReadyToPoll"
       /\ b.id \in Delivered(n) /\ b.stray = a.stray
    \/ /\ a.tag = "ReadyToPoll" /\ b.tag = "Done"
       /\ Len(custom'[n]) = Len(custom[n]) + 1

\* C26: each direction of a handler moves only None -> PendingSubstream
\* (closure first) or None -> PendingProtocolFn (substream first), then to
\* ReadyToPoll when the other of the two arrives, then to Done when the future
\* completes and reports; ReadyToPoll always holds a closure and a substream,
\* and Done is never left
C26_HandlerStateMachine ==
    [][\A n \in Peers : SameHandler(n) =>
            /\ LegalMove(n, handler[n].inbound_state, handler'[n].inbound_state)
            /\ LegalMove(n, handler[n].outbound_state, handler'[n].outbound_state)]_vars
C26_Witness ==
    /\ Alive("alice") /\ Alive("bob")
    /\ handler["alice"].outbound_state.tag = "Done"
    /\ handler["bob"].inbound_state.tag = "Done"

\* the direction of the handler of peer n a request belongs to
DirOf(h, dir) == IF dir = "ExecuteInbound" THEN h.inbound_state ELSE h.outbound_state
OtherDirOf(h, dir) == IF dir = "ExecuteInbound" THEN h.outbound_state ELSE h.inbound_state
\* this step hands the handler of peer n a closure its direction cannot take
IllegalClosure(n) ==
    /\ HandlerInjectEvent(n) /\ handler[n].panicked = "no"
    /\ DirOf(handler[n], Head(notify[n]).dir).tag
            \in {"PendingSubstream", "ReadyToPoll", "Done"}
\* this step hands the handler of peer n an inbound substream it cannot take
IllegalSubstream(n) ==
    /\ InjectFullyNegotiatedInbound(n) \/ StraySubstream(n)
    /\ handler[n].inbound_state.tag \in {"PendingProtocolFn", "ReadyToPoll", "Done"}

\* C27 as stated: an illegal delivery panics, and the closure, substream or
\* future the direction held is neither replaced nor dropped
C27_IllegalEntryKeepsHeld ==
    [][\A n \in Peers :
        /\ IllegalClosure(n) =>
              /\ handler'[n].panicked # "no"
              /\ DirOf(handler'[n], Head(notify[n]).dir)
                    = DirOf(handler[n], Head(notify[n]).dir)
        /\ IllegalSubstream(n) =>
              /\ handler'[n].panicked # "no"
              /\ handler'[n].inbound_state = handler[n].inbound_state]_vars

\* C27: an illegal delivery panics; the new closure or substream is never
\* bound, the other direction is untouched, no event is reported, the
\* direction is left Poisoned, and the handler does nothing more
C27_IllegalEntryFatal ==
    [][\A n \in Peers :
        /\ IllegalClosure(n) =>
              /\ handler'[n].panicked = "inject_event"
              /\ DirOf(handler'[n], Head(notify[n]).dir) = Poisoned
              /\ OtherDirOf(handler'[n], Head(notify[n]).dir)
                    = OtherDirOf(handler[n], Head(notify[n]).dir)
              /\ custom' = custom /\ protocol_out_events' = protocol_out_events
        /\ IllegalSubstream(n) =>
              /\ handler'[n].panicked = "inject_fully_negotiated_inbound"
              /\ handler'[n].inbound_state = Poisoned
              /\ handler'[n].outbound_state = handler[n].outbound_state
              /\ custom' = custom /\ protocol_out_events' = protocol_out_events
        /\ (handler[n].panicked # "no" /\ handler'[n].live) =>
              /\ handler'[n] = handler[n]
              /\ Len(custom'[n]) <= Len(custom[n])]_vars
C27_Witness ==
    /\ handler["alice"].panicked = "inject_event"
    /\ handler["bob"].panicked = "inject_fully_negotiated_inbound"

\* C28: when the substream a dialer request asked for cannot be opened, the
\* handler goes on running and the failure reaches the behaviour as
\* OutboundFailed for that request and peer
C28_DialErrorSurfaces ==
    [][\A n \in Peers : InjectDialUpgradeError(n) =>
            /\ handler'[n].panicked = "no"
            /\ \E k \in 1..Len(custom'[n]) :
                    /\ custom'[n][k].kind = "OutboundFailed"
                    /\ custom'[n][k].id = handler[n].outbound_state.id]_vars

\* peer n has emitted the event of that kind and value for its request
Emitted(n, kind, value) ==
    \E k \in 1..Len(emitted[n]) :
        /\ emitted[n][k].kind = kind /\ emitted[n][k].value = value
        /\ emitted[n][k].peer = Other(n)
        /\ requests[emitted[n][k].id].node = n
\* the peer that plays alice's part has emitted her result, the other bob's
ItWorks ==
    \E d \in Peers :
        /\ Emitted(d, "OutboundFinished", AliceResult(Bar))
        /\ Emitted(Other(d), "InboundFinished", BobResult(Foo, Baz))

\* C29: on a connected pair where one peer submits the dialer protocol and the
\* other the listener protocol, the future the listener's handler polls is its
\* closure on the substream the dialer opened, whichever of the two reached
\* the handler first, and with both swarms polled fairly the dialer emits
\* OutboundFinished with the value the listener sent and the listener emits
\* InboundFinished with the values the dialer sent
C29_ItWorks ==
    /\ [](\A n \in Peers : handler[n].inbound_state.tag = "ReadyToPoll" =>
            /\ handler[n].inbound_state.id # 0
            /\ requests[handler[n].inbound_state.id]
                    = [node |-> n, dir |-> "ExecuteInbound"]
            /\ ~handler[n].inbound_state.stray)
    /\ <>[]ItWorks
C29_Witness ==
    /\ Emitted("alice", "OutboundFinished", AliceResult(Bar))
    /\ Emitted("bob", "InboundFinished", BobResult(Foo, Baz))
    /\ handler["alice"].outbound_state.tag = "Done"
    /\ handler["bob"].inbound_state.tag = "Done"
    /\ wire["alice"] = NewWire

\* ------------------------------------------- Alice's runner, continued
\* C31: when the redeem transaction does not build in EncSigLearned, Alice
\* publishes no redeem transaction: she awaits the expiry of the cancel
\* timelock, leaves that wait for CancelTimelockExpired only once the timelock
\* has expired, and checkpoints CancelTimelockExpired before she goes on;
\* with a signature that does not build she is never in BtcRedeemed
C31_RedeemBuildFailure ==
    /\ [][(RedeemBuildFails /\ pc' = "await") =>
            (op' = "wait_for_cancel_timelock" /\ chain' = chain)]_vars
    /\ [][(Awaiting("wait_for_cancel_timelock") /\ pc' \notin {"await", "crashed", "failed"}) =>
            /\ timelock # "None"
            /\ pc' = "ckpt" /\ state' = CancelTimelockExpired(state.state3)
            /\ chain' = chain /\ db' = db]_vars
    /\ [][(pc = "ckpt" /\ state.tag = "CancelTimelockExpired" /\ pc' = "entry") =>
            (db' = ToDb(state) /\ state' = state)]_vars
    /\ [](op = "wait_for_cancel_timelock" =>
            (state.tag = "EncSigLearned" /\ state.encrypted_signature # "good"))
    /\ []((state.tag = "EncSigLearned" /\ state.encrypted_signature # "good") =>
            (encSig = state.encrypted_signature /\ "tx_redeem" \notin chain))
    /\ [](encSig = "bad" =>
            /\ "tx_redeem" \notin chain
            /\ state.tag # "BtcRedeemed" /\ db.end_state # "BtcRedeemed")
C31_Witness ==
    /\ pc = "ckpt" /\ opResult = "ok" /\ timelock = "Cancel"
    /\ db.tag = "EncSigLearned" /\ db.encrypted_signature = "bad"
    /\ state = CancelTimelockExpired(FromDb(db).state3)
    /\ chain = {"tx_lock", "xmr_lock"}

\* C32: when the cancel or the punish timelock has expired by the time Alice
\* enters XmrLocked, the answer of expired_timelocks takes her to
\* CancelTimelockExpired: the select on the encrypted signature is not set up
\* and a signature that is already there stays untouched; the select is set up
\* only on the answer None, EncSigLearned is entered from XmrLocked only out of
\* that select, and a timelock that has expired stays expired
C32_ExpiredAtXmrLocked ==
    /\ [][(Awaiting("expired_timelocks") /\ timelock # "None") =>
            /\ op' # "select_enc_sig" /\ state'.tag # "EncSigLearned"
            /\ pc' \notin {"await", "crashed", "failed"} =>
                    /\ pc' = "ckpt" /\ state' = CancelTimelockExpired(state.state3)
                    /\ encSig' = encSig]_vars
    /\ [][(op' = "select_enc_sig" /\ op # "select_enc_sig") =>
            (Awaiting("expired_timelocks") /\ timelock = "None" /\ state' = state)]_vars
    /\ [][(state.tag = "XmrLocked" /\ state'.tag = "EncSigLearned") =>
            Awaiting("select_enc_sig")]_vars
    /\ [](op = "expired_timelocks" => (pc = "await" /\ state.tag = "XmrLocked"))
    /\ [][timelock # "None" => timelock' # "None"]_vars
C32_Witness ==
    /\ pc = "ckpt" /\ state.tag = "CancelTimelockExpired" /\ db.tag = "XmrLocked"
    /\ encSig = "good" /\ bob.tag = "BtcCancelled" /\ timelock = "Punish"

\* C33: run_until returns as soon as the state satisfies the caller's
\* predicate: a state the predicate accepts is still accepted by the predicate
\* in force at the next entry, and an entry with an accepted state returns
\* that state without any further transition
C33_ReturnsAtFirstTarget ==
    /\ [][(pc = "ckpt" /\ pc' \in {"entry", "done"} /\ is_target_state(pred, state)) =>
            (state' = state /\ is_target_state(pred', state'))]_vars
    /\ [][(pc = "entry" /\ is_target_state(pred, state) /\ Alice' # Alice
           /\ pc' # "crashed") => (pc' = "done" /\ state' = state /\ db' = db)]_vars

\* the place of a variant on the longest path through the transition table
Rank(tag) ==
    CASE tag = "Started" -> 0
      [] tag = "Negotiated" -> 1
      [] tag = "BtcLocked" -> 2
      [] tag = "XmrLocked" -> 3
      [] tag = "EncSigLearned" -> 4
      [] tag = "CancelTimelockExpired" -> 5
      [] tag = "BtcCancelled" -> 6
      [] tag = "BtcPunishable" -> 7
      [] tag = "BtcRefunded" -> 8
      [] OTHER -> 9

\* C34: Alice's runner terminates: every transition of a run takes the state
\* to a variant further down the transition table, never back to one that was
\* left, which bounds a run by 9 transitions; and when no awaited operation
\* fails and none stays pending for ever, swap returns XmrRefunded,
\* BtcRedeemed, BtcPunished or SafelyAborted
C34_RunnerTerminates ==
    /\ [][(pc \in Running /\ pc' \in Running /\ state' # state) =>
            (state.tag \in Tags /\ state'.tag \in Tags
             /\ Rank(state.tag) < Rank(state'.tag))]_vars
    /\ []<>(pc # "await") => <>[](pc = "done" /\ state.tag \in Terminal)
C34_Witness ==
    /\ pc = "done" /\ state.tag = "XmrRefunded" /\ walletLoaded
    /\ encSig = "bad" /\ timelock = "Punish" /\ bob.tag = "BtcRefunded"

\* C35: Alice publishes tx_cancel only from CancelTimelockExpired and only
\* with the cancel timelock expired, and she is in CancelTimelockExpired, in
\* memory or in the store, only when the cancel timelock has expired
C35_CancelOnlyAfterExpiry ==
    /\ [][("tx_cancel" \in chain' /\ "tx_cancel" \notin chain /\ Alice' # Alice) =>
            /\ Awaiting("publish_cancel") /\ state.tag = "CancelTimelockExpired"
            /\ timelock # "None"]_vars
    /\ []((state.tag = "CancelTimelockExpired" \/ db.tag = "CancelTimelockExpired") =>
            timelock # "None")

CancelSide == {"CancelTimelockExpired", "BtcCancelled", "BtcPunishable", "BtcPunished"}

\* C36: within one swap, across drops and resumes, Alice takes the redeem
\* side or the cancel side, never both: tx_redeem is never on the chain
\* together with tx_cancel or tx_punish, once tx_redeem is published she is
\* never in CancelTimelockExpired, BtcCancelled, BtcPunishable or BtcPunished,
\* and once she has been in CancelTimelockExpired tx_redeem is never published
C36_RedeemOrCancel ==
    /\ []("tx_redeem" \in chain => ("tx_cancel" \notin chain /\ "tx_punish" \notin chain))
    /\ []("tx_redeem" \in chain => state.tag \notin CancelSide)
    /\ []((state.tag = "CancelTimelockExpired" /\ "tx_redeem" \notin chain) =>
            []("tx_redeem" \notin chain))
====
